---- MODULE Spec2Model ----
(***************************************************************************)
(* A model of the chat commands of the gpt command-line tool               *)
(* (voxtechnica/gpt): request building from CSV tables, the concurrent     *)
(* executor of the parallel command with its retry pass, and the           *)
(* asynchronous batch command with polling and reconciliation.             *)
(*                                                                         *)
(* Go strings that the code takes apart, joins or formats (cell values,    *)
(* column names, flags, templates, completions) are sequences of           *)
(* one-character strings.  Values the code only compares or passes on      *)
(* (model ids, file paths, batch ids, statuses) are TLA+ strings.          *)
(***************************************************************************)
EXTENDS Integers, Sequences, FiniteSets, TLC

(***************************************************************************)
(* Strings                                                                 *)
(***************************************************************************)

\* unicode.IsSpace.  A character is a one-character string; a code point that
\* a TLA+ string cannot hold is written by its number, U+XXXX.
WhiteSpace ==
  {" ", "\n", "\t", "\r", "\f", "U+000B", "U+0085", "U+00A0", "U+1680",
   "U+2000", "U+2001", "U+2002", "U+2003", "U+2004", "U+2005", "U+2006",
   "U+2007", "U+2008", "U+2009", "U+200A", "U+2028", "U+2029", "U+202F",
   "U+205F", "U+3000"}

DigitChars == <<"0", "1", "2", "3", "4", "5", "6", "7", "8", "9">>

IsDigit(c) == \E i \in 1..10 : DigitChars[i] = c

RECURSIVE Itoa(_)
\* strconv.Itoa / the %d verb, for n >= 0.
Itoa(n) ==
  IF n < 10 THEN <<DigitChars[n + 1]>>
  ELSE Itoa(n \div 10) \o <<DigitChars[(n % 10) + 1]>>

RECURSIVE FieldsFrom(_, _, _, _)
FieldsFrom(t, i, cur, acc) ==
  IF i > Len(t)
  THEN IF cur = <<>> THEN acc ELSE Append(acc, cur)
  ELSE IF t[i] \in WhiteSpace
       THEN FieldsFrom(t, i + 1, <<>>, IF cur = <<>> THEN acc ELSE Append(acc, cur))
       ELSE FieldsFrom(t, i + 1, Append(cur, t[i]), acc)

\* strings.Fields: the maximal runs of non-space characters, in order.
Fields(t) == FieldsFrom(t, 1, <<>>, <<>>)

RECURSIVE Join(_, _)
\* strings.Join
Join(parts, sep) ==
  IF parts = <<>> THEN <<>>
  ELSE IF Len(parts) = 1 THEN parts[1]
  ELSE parts[1] \o sep \o Join(Tail(parts), sep)

\* psy.CleanText: collapse runs of white space, trim both ends.
CleanText(t) == Join(Fields(t), <<" ">>)

RECURSIVE SplitFrom(_, _, _, _, _)
SplitFrom(s, sep, i, cur, acc) ==
  IF i > Len(s) THEN Append(acc, cur)
  ELSE IF s[i] = sep
       THEN SplitFrom(s, sep, i + 1, <<>>, Append(acc, cur))
       ELSE SplitFrom(s, sep, i + 1, Append(cur, s[i]), acc)

\* strings.Split with a one-character separator: always at least one part.
Split(s, sep) == SplitFrom(s, sep, 1, <<>>, <<>>)

\* strings.Contains with a one-character substring.
Contains(s, c) == \E i \in 1..Len(s) : s[i] = c

RECURSIVE TrimLeft(_)
TrimLeft(s) ==
  IF s # <<>> /\ Head(s) \in WhiteSpace THEN TrimLeft(Tail(s)) ELSE s

RECURSIVE TrimRight(_)
TrimRight(s) ==
  IF s # <<>> /\ s[Len(s)] \in WhiteSpace
  THEN TrimRight(SubSeq(s, 1, Len(s) - 1)) ELSE s

\* strings.TrimSpace
TrimSpace(s) == TrimRight(TrimLeft(s))

HasPrefixAt(s, i, old) ==
  /\ i + Len(old) - 1 <= Len(s)
  /\ SubSeq(s, i, i + Len(old) - 1) = old

RECURSIVE ReplaceFrom(_, _, _, _)
ReplaceFrom(s, i, old, new) ==
  IF i > Len(s) THEN <<>>
  ELSE IF HasPrefixAt(s, i, old)
       THEN new \o ReplaceFrom(s, i + Len(old), old, new)
       ELSE <<s[i]>> \o ReplaceFrom(s, i + 1, old, new)

\* strings.ReplaceAll for a non-empty old: non-overlapping matches, left to
\* right, the inserted text is not rescanned within the same call; a string
\* without a match is returned as it is.
ReplaceAll(s, old, new) ==
  IF \A i \in 1..Len(s) : ~HasPrefixAt(s, i, old) THEN s
  ELSE ReplaceFrom(s, 1, old, new)

UpperChars ==
  <<"A", "B", "C", "D", "E", "F", "G", "H", "I", "J", "K", "L", "M",
    "N", "O", "P", "Q", "R", "S", "T", "U", "V", "W", "X", "Y", "Z">>

LowerChars ==
  <<"a", "b", "c", "d", "e", "f", "g", "h", "i", "j", "k", "l", "m",
    "n", "o", "p", "q", "r", "s", "t", "u", "v", "w", "x", "y", "z">>

\* strconv's lower and commonPrefixLenIgnoreCase: the bytes of the letters A
\* to Z are lower-cased, every other byte compares as it is.
lower(c) ==
  IF \E i \in 1..26 : UpperChars[i] = c
  THEN LowerChars[CHOOSE i \in 1..26 : UpperChars[i] = c]
  ELSE c

\* A character outside ASCII is written with its code point, "U+0130"; the
\* characters of ASCII are written as they are, apart from "U+000B".
HexChars ==
  <<"0", "1", "2", "3", "4", "5", "6", "7", "8", "9", "A", "B", "C", "D", "E", "F">>

RECURSIVE HexNumber(_)
HexNumber(h) ==
  IF Len(h) = 0 THEN 0
  ELSE 16 * HexNumber(SubSeq(h, 1, Len(h) - 1))
       + (CHOOSE i \in 1..16 : HexChars[i] = SubSeq(h, Len(h), Len(h))) - 1

RECURSIVE HexString(_)
HexString(n) ==
  IF n < 16 THEN HexChars[n + 1]
  ELSE HexString(n \div 16) \o HexChars[(n % 16) + 1]

\* The code point of a character written with its code point.
Rune(c) == HexNumber(SubSeq(c, 3, Len(c)))

\* The character of a code point that is a lower-case letter of ASCII or
\* lies outside ASCII.
CharOf(n) ==
  IF n \in 97..122 THEN LowerChars[n - 96]
  ELSE IF n < 16 THEN "U+000" \o HexString(n)
  ELSE IF n < 256 THEN "U+00" \o HexString(n)
  ELSE IF n < 4096 THEN "U+0" \o HexString(n)
  ELSE "U+" \o HexString(n)

\* unicode.UpperLower, one more than unicode.MaxRune: in the place of a
\* distance it marks a range of alternating upper and lower case.
UpperLower == 1114112

\* unicode.CaseRanges, the distance to the lower case only: the code points
\* from the first to the second number move by the third; under UpperLower
\* the range alternates upper and lower case, starting with an upper case.
CaseRanges ==
  <<<<192, 214, 32>>, <<216, 222, 32>>, <<256, 303, UpperLower>>,
    <<304, 304, -199>>, <<306, 311, UpperLower>>, <<313, 328, UpperLower>>,
    <<330, 375, UpperLower>>, <<376, 376, -121>>, <<377, 382, UpperLower>>,
    <<385, 385, 210>>, <<386, 389, UpperLower>>, <<390, 390, 206>>,
    <<391, 391, 1>>, <<393, 394, 205>>, <<395, 395, 1>>, <<398, 398, 79>>,
    <<399, 399, 202>>, <<400, 400, 203>>, <<401, 401, 1>>, <<403, 403, 205>>,
    <<404, 404, 207>>, <<406, 406, 211>>, <<407, 407, 209>>, <<408, 408, 1>>,
    <<412, 412, 211>>, <<413, 413, 213>>, <<415, 415, 214>>,
    <<416, 421, UpperLower>>, <<422, 422, 218>>, <<423, 423, 1>>,
    <<425, 425, 218>>, <<428, 428, 1>>, <<430, 430, 218>>, <<431, 431, 1>>,
    <<433, 434, 217>>, <<435, 438, UpperLower>>, <<439, 439, 219>>,
    <<440, 440, 1>>, <<444, 444, 1>>, <<452, 452, 2>>, <<453, 453, 1>>,
    <<455, 455, 2>>, <<456, 456, 1>>, <<458, 458, 2>>,
    <<459, 476, UpperLower>>, <<478, 495, UpperLower>>, <<497, 497, 2>>,
    <<498, 501, UpperLower>>, <<502, 502, -97>>, <<503, 503, -56>>,
    <<504, 543, UpperLower>>, <<544, 544, -130>>, <<546, 563, UpperLower>>,
    <<570, 570, 10795>>, <<571, 571, 1>>, <<573, 573, -163>>,
    <<574, 574, 10792>>, <<577, 577, 1>>, <<579, 579, -195>>,
    <<580, 580, 69>>, <<581, 581, 71>>, <<582, 591, UpperLower>>,
    <<880, 883, UpperLower>>, <<886, 886, 1>>, <<895, 895, 116>>,
    <<902, 902, 38>>, <<904, 906, 37>>, <<908, 908, 64>>, <<910, 911, 63>>,
    <<913, 929, 32>>, <<931, 939, 32>>, <<975, 975, 8>>,
    <<984, 1007, UpperLower>>, <<1012, 1012, -60>>, <<1015, 1015, 1>>,
    <<1017, 1017, -7>>, <<1018, 1018, 1>>, <<1021, 1023, -130>>,
    <<1024, 1039, 80>>, <<1040, 1071, 32>>, <<1120, 1153, UpperLower>>,
    <<1162, 1215, UpperLower>>, <<1216, 1216, 15>>,
    <<1217, 1230, UpperLower>>, <<1232, 1327, UpperLower>>,
    <<1329, 1366, 48>>, <<4256, 4293, 7264>>, <<4295, 4295, 7264>>,
    <<4301, 4301, 7264>>, <<5024, 5103, 38864>>, <<5104, 5109, 8>>,
    <<7312, 7354, -3008>>, <<7357, 7359, -3008>>, <<7680, 7829, UpperLower>>,
    <<7838, 7838, -7615>>, <<7840, 7935, UpperLower>>, <<7944, 7951, -8>>,
    <<7960, 7965, -8>>, <<7976, 7983, -8>>, <<7992, 7999, -8>>,
    <<8008, 8013, -8>>, <<8025, 8025, -8>>, <<8027, 8027, -8>>,
    <<8029, 8029, -8>>, <<8031, 8031, -8>>, <<8040, 8047, -8>>,
    <<8072, 8079, -8>>, <<8088, 8095, -8>>, <<8104, 8111, -8>>,
    <<8120, 8121, -8>>, <<8122, 8123, -74>>, <<8124, 8124, -9>>,
    <<8136, 8139, -86>>, <<8140, 8140, -9>>, <<8152, 8153, -8>>,
    <<8154, 8155, -100>>, <<8168, 8169, -8>>, <<8170, 8171, -112>>,
    <<8172, 8172, -7>>, <<8184, 8185, -128>>, <<8186, 8187, -126>>,
    <<8188, 8188, -9>>, <<8486, 8486, -7517>>, <<8490, 8490, -8383>>,
    <<8491, 8491, -8262>>, <<8498, 8498, 28>>, <<8544, 8559, 16>>,
    <<8579, 8579, 1>>, <<9398, 9423, 26>>, <<11264, 11311, 48>>,
    <<11360, 11360, 1>>, <<11362, 11362, -10743>>, <<11363, 11363, -3814>>,
    <<11364, 11364, -10727>>, <<11367, 11372, UpperLower>>,
    <<11373, 11373, -10780>>, <<11374, 11374, -10749>>,
    <<11375, 11375, -10783>>, <<11376, 11376, -10782>>, <<11378, 11378, 1>>,
    <<11381, 11381, 1>>, <<11390, 11391, -10815>>,
    <<11392, 11491, UpperLower>>, <<11499, 11502, UpperLower>>,
    <<11506, 11506, 1>>, <<42560, 42605, UpperLower>>,
    <<42624, 42651, UpperLower>>, <<42786, 42799, UpperLower>>,
    <<42802, 42863, UpperLower>>, <<42873, 42876, UpperLower>>,
    <<42877, 42877, -35332>>, <<42878, 42887, UpperLower>>,
    <<42891, 42891, 1>>, <<42893, 42893, -42280>>,
    <<42896, 42899, UpperLower>>, <<42902, 42921, UpperLower>>,
    <<42922, 42922, -42308>>, <<42923, 42923, -42319>>,
    <<42924, 42924, -42315>>, <<42925, 42925, -42305>>,
    <<42926, 42926, -42308>>, <<42928, 42928, -42258>>,
    <<42929, 42929, -42282>>, <<42930, 42930, -42261>>,
    <<42931, 42931, 928>>, <<42932, 42947, UpperLower>>,
    <<42948, 42948, -48>>, <<42949, 42949, -42307>>,
    <<42950, 42950, -35384>>, <<42951, 42954, UpperLower>>,
    <<42960, 42960, 1>>, <<42966, 42969, UpperLower>>, <<42997, 42997, 1>>,
    <<65313, 65338, 32>>, <<66560, 66599, 40>>, <<66736, 66771, 40>>,
    <<66928, 66938, 39>>, <<66940, 66954, 39>>, <<66956, 66962, 39>>,
    <<66964, 66965, 39>>, <<68736, 68786, 64>>, <<71840, 71871, 32>>,
    <<93760, 93791, 32>>, <<125184, 125217, 34>>>>

\* unicode.ToLower on a code point.
ToLowerRune(r) ==
  IF r <= 127 THEN (IF r \in 65..90 THEN r + 32 ELSE r)
  ELSE IF \E k \in 1..Len(CaseRanges) : CaseRanges[k][1] <= r /\ r <= CaseRanges[k][2]
  THEN LET Moved(cr) ==
             IF cr[3] = UpperLower THEN cr[1] + 2 * ((r - cr[1]) \div 2) + 1
             ELSE r + cr[3]
       IN  Moved(CaseRanges[CHOOSE k \in 1..Len(CaseRanges) :
                              CaseRanges[k][1] <= r /\ r <= CaseRanges[k][2]])
  ELSE r

\* unicode.ToLower on a character.
LowerOf(c) ==
  IF Len(c) = 1 THEN lower(c)
  ELSE IF ToLowerRune(Rune(c)) = Rune(c) THEN c
  ELSE CharOf(ToLowerRune(Rune(c)))

\* strings.ToLower
ToLower(s) == [i \in 1..Len(s) |-> LowerOf(s[i])]

\* strings.HasSuffix and strings.TrimSuffix
HasSuffix(s, suffix) ==
  /\ Len(suffix) <= Len(s)
  /\ SubSeq(s, Len(s) - Len(suffix) + 1, Len(s)) = suffix

TrimSuffix(s, suffix) ==
  IF HasSuffix(s, suffix) THEN SubSeq(s, 1, Len(s) - Len(suffix)) ELSE s

Min2(a, b) == IF a < b THEN a ELSE b

RECURSIVE SeqToSet(_)
SeqToSet(s) == IF s = <<>> THEN {} ELSE {Head(s)} \cup SeqToSet(Tail(s))

(***************************************************************************)
(* Literals of the code                                                    *)
(***************************************************************************)
S_chatID == <<"c", "h", "a", "t", "I", "D">>
S_completion == <<"c", "o", "m", "p", "l", "e", "t", "i", "o", "n">>
S_column == <<"c", "o", "l", "u", "m", "n">>
S_score == <<"s", "c", "o", "r", "e">>
S_random == <<"r", "a", "n", "d", "o", "m">>
S_questionMarker == <<"{", "{", "q", "u", "e", "s", "t", "i", "o", "n", "}", "}">>
S_answerMarker == <<"{", "{", "a", "n", "s", "w", "e", "r", "}", "}">>
First == <<"f", "i", "r", "s", "t">>
Last == <<"l", "a", "s", "t">>
All == <<"a", "l", "l">>
None == <<"n", "o", "n", "e">>
S_noChoices ==
  <<"c", "h", "a", "t", ":", " ", "n", "o", " ", "c", "h", "o", "i", "c", "e", "s",
    " ", "f", "o", "u", "n", "d">>
S_noContent ==
  <<"c", "h", "a", "t", ":", " ", "n", "o", " ", "c", "o", "n", "t", "e", "n", "t",
    " ", "f", "o", "u", "n", "d">>

(***************************************************************************)
(* Scores (psy/score.go).  A score is a float32, held as the three fields  *)
(* of its IEEE 754 encoding: the sign bit, the biased exponent (0..255)    *)
(* and the 23-bit fraction.  Exact values on the way from and to decimal   *)
(* text are decimal numbers of any length: a sequence of digits d and a    *)
(* power of ten e, standing for d * 10^e.                                  *)
(***************************************************************************)

F32(sign, exp, frac) == [sign |-> sign, exp |-> exp, frac |-> frac]

\* math.Inf(sign) and math.NaN() as float32.
Inf32(sign) == F32(sign, 255, 0)

NaN32 == F32(0, 255, 4194304)

IsNaN(v) == v.exp = 255 /\ v.frac # 0

\* v > 0 of Go: false for both zeros and for NaN.
Positive(v) == v.sign = 0 /\ ~IsNaN(v) /\ (v.exp # 0 \/ v.frac # 0)

\* Selection.IsValid
IsValid(sel) == sel \in {First, Last, All, None}

DigitValue(c) == (CHOOSE i \in 1..10 : DigitChars[i] = c) - 1

HexLetters == <<"a", "b", "c", "d", "e", "f">>

IsHexLetter(c) == \E i \in 1..6 : HexLetters[i] = lower(c)

\* The value of a decimal or hexadecimal digit.
HexValue(c) ==
  IF IsDigit(c) THEN DigitValue(c)
  ELSE 9 + (CHOOSE i \in 1..6 : HexLetters[i] = lower(c))

RECURSIVE Pow(_, _)
Pow(b, k) == IF k = 0 THEN 1 ELSE b * Pow(b, k - 1)

RECURSIVE BitLen(_)
\* The number of bits of n: 0 for 0.
BitLen(n) == IF n = 0 THEN 0 ELSE 1 + BitLen(n \div 2)

RECURSIVE NatDigits(_)
\* The decimal digits of n, none for 0.
NatDigits(n) == IF n = 0 THEN <<>> ELSE Append(NatDigits(n \div 10), n % 10)

RECURSIVE DigitsInt(_)
\* The number a short sequence of digits stands for.
DigitsInt(d) ==
  IF d = <<>> THEN 0 ELSE 10 * DigitsInt(SubSeq(d, 1, Len(d) - 1)) + d[Len(d)]

RECURSIVE MulCarry(_, _, _)
\* d * c + a for c below 2^27 and a carry a from 0 to c, as Len(d) digits and
\* the carry out of them: the low half of d first, its carry into the high
\* half.
MulCarry(d, c, a) ==
  IF d = <<>> \/ a < 0 THEN [out |-> <<>>, carry |-> a]
  ELSE IF Len(d) = 1
  THEN [out |-> <<(d[1] * c + a) % 10>>, carry |-> (d[1] * c + a) \div 10]
  ELSE LET Joined(hi, lo) == [out |-> hi.out \o lo.out, carry |-> hi.carry]
           High(lo) ==
             Joined(MulCarry(SubSeq(d, 1, Len(d) \div 2), c, lo.carry), lo)
       IN  High(MulCarry(SubSeq(d, Len(d) \div 2 + 1, Len(d)), c, a))

\* The digits of d * c + a, for c and a below 2^27.
MulAdd(d, c, a) ==
  LET Digits(r) == NatDigits(r.carry) \o r.out
  IN  Digits(MulCarry(d, c, a))

RECURSIVE Inc(_)
\* The digits of d + 1.
Inc(d) ==
  IF d = <<>> THEN <<1>>
  ELSE IF d[Len(d)] < 9 THEN [d EXCEPT ![Len(d)] = @ + 1]
  ELSE Append(Inc(SubSeq(d, 1, Len(d) - 1)), 0)

RECURSIVE LeadingZerosOff(_)
LeadingZerosOff(d) ==
  IF d # <<>> /\ d[1] = 0 THEN LeadingZerosOff(Tail(d)) ELSE d

RECURSIVE Normal(_)
\* The same number without trailing zeros among its digits.
Normal(x) ==
  IF x.d # <<>> /\ x.d[Len(x.d)] = 0
  THEN Normal([d |-> SubSeq(x.d, 1, Len(x.d) - 1), e |-> x.e + 1])
  ELSE x

RECURSIVE Double(_, _)
\* x * 2^k
Double(x, k) ==
  IF x.d = <<>> \/ k = 0 THEN x
  ELSE LET j == IF k < 27 THEN k ELSE 27
       IN  Double(Normal([d |-> MulAdd(x.d, Pow(2, j), 0), e |-> x.e]), k - j)

RECURSIVE Halve(_, _)
\* x / 2^k, as x * 5^k / 10^k
Halve(x, k) ==
  IF x.d = <<>> \/ k = 0 THEN x
  ELSE LET j == IF k < 11 THEN k ELSE 11
       IN  Halve(Normal([d |-> MulAdd(x.d, Pow(5, j), 0), e |-> x.e - j]), k - j)

\* The number of digits of the integer part of x; zero or less for x < 1.
IntDigits(x) == Len(x.d) + x.e

\* The integer part of an x below 10^9.
IntPart(x) ==
  IF x.e >= 0 THEN DigitsInt(x.d) * Pow(10, x.e)
  ELSE IF IntDigits(x) <= 0 THEN 0
  ELSE DigitsInt(SubSeq(x.d, 1, IntDigits(x)))

\* The digits of x rounded to the nearest integer, a tie to the even one.
RoundDigits(x) ==
  IF x.e >= 0 THEN x.d \o [i \in 1..x.e |-> 0]
  ELSE IF IntDigits(x) < 0 THEN <<>>
  ELSE LET n == IntDigits(x)
           ip == SubSeq(x.d, 1, n)
           first == x.d[n + 1]
           more == \E i \in (n + 2)..Len(x.d) : x.d[i] # 0
           odd == n > 0 /\ ip[n] % 2 = 1
       IN  IF first > 5 \/ (first = 5 /\ (more \/ odd)) THEN Inc(ip) ELSE ip

RECURSIVE Scale(_, _)
\* x as y * 2^b with 2^23 <= y < 2^24, or with b = -149 and y < 2^23 when x
\* is below the least normal float32; b starts at 0.
Scale(y, b) ==
  IF IntDigits(y) > 8 THEN Scale(Halve(y, 11), b + 11)
  ELSE LET Step(ip, bits) ==
             IF ip >= 16777216 THEN Scale(Halve(y, bits - 24), b + bits - 24)
             ELSE IF ip >= 8388608 \/ b = -149 THEN [y |-> y, b |-> b]
             ELSE Scale(Double(y, Min2(b + 149, 24 - bits)),
                        b - Min2(b + 149, 24 - bits))
           Bits(ip) == Step(ip, BitLen(ip))
       IN  Bits(IntPart(y))

\* The float32 of the mantissa m (at most 2^24) and the exponent b: m * 2^b,
\* or infinity and a range error when that is too large.
Encode(sign, m, b) ==
  LET m2 == IF m = 16777216 THEN 8388608 ELSE m
      b2 == IF m = 16777216 THEN b + 1 ELSE b
  IN  IF m2 < 8388608 THEN [range |-> FALSE, f |-> F32(sign, 0, m2)]
      ELSE IF b2 + 150 >= 255 THEN [range |-> TRUE, f |-> Inf32(sign)]
      ELSE [range |-> FALSE, f |-> F32(sign, b2 + 150, m2 - 8388608)]

\* The float32 nearest to the decimal number x, a tie to the even mantissa.
\* 10^39 is above every float32, and below 10^-46 every number rounds to 0.
Nearest32(sign, x) ==
  IF x.d = <<>> \/ IntDigits(x) < -45 THEN [range |-> FALSE, f |-> F32(sign, 0, 0)]
  ELSE IF IntDigits(x) > 39 THEN [range |-> TRUE, f |-> Inf32(sign)]
  ELSE LET Rounded(s) == Encode(sign, DigitsInt(RoundDigits(s.y)), s.b)
       IN  Rounded(Scale(x, 0))

RECURSIVE ReadMantissa(_, _, _, _)
\* The digit loop of strconv's readFloat from place i: the digits read, how
\* many of them follow the point, and the place where the loop stops.
ReadMantissa(s, i, hex, st) ==
  IF i > Len(s) THEN [st EXCEPT !.i = i]
  ELSE IF s[i] = "_" THEN ReadMantissa(s, i + 1, hex, [st EXCEPT !.underscores = TRUE])
  ELSE IF s[i] = "." /\ ~st.sawdot
  THEN ReadMantissa(s, i + 1, hex, [st EXCEPT !.sawdot = TRUE])
  ELSE IF IsDigit(s[i]) \/ (hex /\ IsHexLetter(s[i]))
  THEN ReadMantissa(s, i + 1, hex,
                    [st EXCEPT !.sawdigits = TRUE,
                               !.digits = Append(@, HexValue(s[i])),
                               !.frac = IF st.sawdot THEN @ + 1 ELSE @])
  ELSE [st EXCEPT !.i = i]

RECURSIVE ExponentDigits(_, _, _, _)
\* The digits of the exponent; its value stops growing at 10000.
ExponentDigits(s, i, e, underscores) ==
  IF i <= Len(s) /\ s[i] = "_" THEN ExponentDigits(s, i + 1, e, TRUE)
  ELSE IF i <= Len(s) /\ IsDigit(s[i])
  THEN ExponentDigits(s, i + 1,
                      IF e < 10000 THEN e * 10 + DigitValue(s[i]) ELSE e,
                      underscores)
  ELSE [i |-> i, e |-> e, underscores |-> underscores]

\* The exponent of readFloat; s[i] is the exponent character.
ReadExponent(s, i) ==
  LET signed == i + 1 <= Len(s) /\ s[i + 1] \in {"+", "-"}
      j == IF signed THEN i + 2 ELSE i + 1
      x == ExponentDigits(s, j, 0, FALSE)
  IN  IF j > Len(s) \/ ~IsDigit(s[j])
      THEN [ok |-> FALSE, i |-> j, e |-> 0, underscores |-> FALSE]
      ELSE [ok |-> TRUE, i |-> x.i,
            e |-> IF signed /\ s[i + 1] = "-" THEN 0 - x.e ELSE x.e,
            underscores |-> x.underscores]

RECURSIVE UnderscoreScan(_, _, _, _)
UnderscoreScan(s, i, hex, saw) ==
  IF i > Len(s) THEN saw # "_"
  ELSE IF IsDigit(s[i]) \/ (hex /\ IsHexLetter(s[i]))
  THEN UnderscoreScan(s, i + 1, hex, "0")
  ELSE IF s[i] = "_" THEN saw = "0" /\ UnderscoreScan(s, i + 1, hex, "_")
  ELSE saw # "_" /\ UnderscoreScan(s, i + 1, hex, "!")

\* strconv's underscoreOK: an underscore stands between two digits, or
\* between a base prefix and a digit.
UnderscoreOK(s) ==
  LET t == IF s # <<>> /\ s[1] \in {"+", "-"} THEN Tail(s) ELSE s
      prefix == Len(t) >= 2 /\ t[1] = "0" /\ lower(t[2]) \in {"b", "o", "x"}
  IN  UnderscoreScan(t, IF prefix THEN 3 ELSE 1, prefix /\ lower(t[2]) = "x",
                     IF prefix THEN "0" ELSE "^")

RECURSIVE HexDigits(_, _)
\* The decimal digits of the number the hexadecimal digits h stand for,
\* after the decimal digits acc of those already read.
HexDigits(h, acc) ==
  IF h = <<>> THEN acc ELSE HexDigits(Tail(h), MulAdd(acc, 16, Head(h)))

\* strconv's readFloat and the test that it took the whole string: the sign,
\* the digits, the exponent and the base, or not ok.
ReadFloat(s) ==
  LET signed == s # <<>> /\ s[1] \in {"+", "-"}
      i0 == IF signed THEN 2 ELSE 1
      Read(hex, m, hasExp, x) ==
        [ok |-> /\ m.sawdigits
                /\ x.ok
                /\ hex => hasExp
                /\ (m.underscores \/ x.underscores) =>
                     UnderscoreOK(SubSeq(s, 1, x.i - 1))
                /\ x.i = Len(s) + 1,
         sign |-> IF signed /\ s[1] = "-" THEN 1 ELSE 0,
         hex |-> hex,
         digits |-> LeadingZerosOff(m.digits),
         frac |-> m.frac,
         e |-> x.e]
      Exponent(hex, m, hasExp) ==
        Read(hex, m, hasExp,
             IF hasExp THEN ReadExponent(s, m.i)
             ELSE [ok |-> TRUE, i |-> m.i, e |-> 0, underscores |-> FALSE])
      Mantissa(hex, m) ==
        Exponent(hex, m,
                 m.i <= Len(s) /\ lower(s[m.i]) = (IF hex THEN "p" ELSE "e"))
      Base(hex) ==
        Mantissa(hex,
                 ReadMantissa(s, IF hex THEN i0 + 2 ELSE i0, hex,
                              [digits |-> <<>>, frac |-> 0, sawdot |-> FALSE,
                               sawdigits |-> FALSE, underscores |-> FALSE,
                               i |-> 0]))
  IN  Base(i0 + 2 <= Len(s) /\ s[i0] = "0" /\ lower(s[i0 + 1]) = "x")

\* The float32 nearest to the hexadecimal number h * 2^e2.  With n the number
\* of bits of h the number is at least 2^(n-1+e2) and below 2^(n+e2).
NearestHex32(sign, h, e2) ==
  LET n == IF h = <<>> THEN 0 ELSE 4 * (Len(h) - 1) + BitLen(h[1])
      x == [d |-> HexDigits(h, <<>>), e |-> 0]
  IN  IF h = <<>> \/ n + e2 <= -150 THEN [range |-> FALSE, f |-> F32(sign, 0, 0)]
      ELSE IF n - 1 + e2 >= 128 THEN [range |-> TRUE, f |-> Inf32(sign)]
      ELSE Nearest32(sign, IF e2 >= 0 THEN Double(Normal(x), e2)
                           ELSE Halve(Normal(x), 0 - e2))

S_inf == <<"i", "n", "f">>
S_infinity == <<"i", "n", "f", "i", "n", "i", "t", "y">>
S_nan == <<"n", "a", "n">>

\* strconv.ParseFloat(s, 32): the float32 and whether the error is nil.  A
\* syntax error comes with 0, a range error with an infinity.
ParseFloat(s) ==
  LET signed == s # <<>> /\ s[1] \in {"+", "-"}
      rest == [i \in 1..Len(IF signed THEN Tail(s) ELSE s) |->
                 lower((IF signed THEN Tail(s) ELSE s)[i])]
      Result(n) == [ok |-> ~n.range, score |-> n.f]
      Number(r) ==
        IF ~r.ok THEN [ok |-> FALSE, score |-> F32(0, 0, 0)]
        ELSE IF r.hex
        THEN Result(NearestHex32(r.sign, r.digits, r.e - 4 * r.frac))
        ELSE Result(Nearest32(r.sign,
                              Normal([d |-> r.digits, e |-> r.e - r.frac])))
  IN  IF rest \in {S_inf, S_infinity}
      THEN [ok |-> TRUE, score |-> Inf32(IF s[1] = "-" THEN 1 ELSE 0)]
      ELSE IF ~signed /\ rest = S_nan THEN [ok |-> TRUE, score |-> NaN32]
      ELSE Number(ReadFloat(s))

\* A strip that cuts the token at its decimal point: the integer part only.
StripToInteger(s) ==
  IF \E i \in 1..Len(s) : s[i] = "."
  THEN SubSeq(s, 1, (CHOOSE i \in 1..Len(s) :
                       s[i] = "." /\ \A j \in 1..(i - 1) : s[j] # ".") - 1)
  ELSE s

\* The loop of ParseScore that removes trailing characters that are no digits.
RECURSIVE StripNonDigits(_)
StripNonDigits(s) ==
  IF s # <<>> /\ ~IsDigit(s[Len(s)])
  THEN StripNonDigits(SubSeq(s, 1, Len(s) - 1)) ELSE s

\* psy.ParseScore
ParseScore(s) ==
  IF s = <<>> \/ (s[1] # "-" /\ s[1] # "+" /\ ~IsDigit(s[1]))
  THEN [ok |-> FALSE, score |-> F32(0, 0, 0)]
  ELSE ParseFloat(StripNonDigits(s))

Reverse(s) == [i \in 1..Len(s) |-> s[Len(s) + 1 - i]]

\* The scores a field adds to a list: its score when it parses, or none.
ScoreOf(p) == IF p.ok THEN <<p.score>> ELSE <<>>

RECURSIVE FirstScore(_)
FirstScore(fields) ==
  IF fields = <<>> THEN <<>>
  ELSE LET Found(one) == IF one # <<>> THEN one ELSE FirstScore(Tail(fields))
       IN  Found(ScoreOf(ParseScore(Head(fields))))

RECURSIVE AllScores(_)
AllScores(fields) ==
  IF fields = <<>> THEN <<>>
  ELSE ScoreOf(ParseScore(Head(fields))) \o AllScores(Tail(fields))

\* A selection that scans the fields from the left for last as for first.
SelectScoresForward(s, sel) ==
  IF s = <<>> \/ sel = None \/ ~IsValid(sel) THEN <<>>
  ELSE IF sel = All THEN AllScores(Fields(s))
  ELSE FirstScore(Fields(s))

\* psy.SelectScores
SelectScores(s, sel) ==
  IF s = <<>> \/ sel = None \/ ~IsValid(sel) THEN <<>>
  ELSE LET fields == Fields(s)
       IN  IF fields = <<>> THEN <<>>
           ELSE IF sel = Last THEN FirstScore(Reverse(fields))
           ELSE IF sel = First THEN FirstScore(fields)
           ELSE AllScores(fields)

RECURSIVE OddMantissa(_, _)
\* m * 2^b with the factors of two of m taken into a negative b.
OddMantissa(m, b) ==
  IF m # 0 /\ m % 2 = 0 /\ b < 0 THEN OddMantissa(m \div 2, b + 1)
  ELSE [m |-> m, b |-> b]

\* The exact value of a finite float32 as a decimal number.
Exact(v) ==
  LET Value(r) ==
        IF r.b >= 0 THEN Double([d |-> NatDigits(r.m), e |-> 0], r.b)
        ELSE Halve([d |-> NatDigits(r.m), e |-> 0], 0 - r.b)
  IN  Value(OddMantissa(IF v.exp = 0 THEN v.frac ELSE v.frac + 8388608,
                        IF v.exp = 0 THEN -149 ELSE v.exp - 150))

DigitText(d) == [i \in 1..Len(d) |-> DigitChars[d[i] + 1]]

\* fmt.Sprintf("%f", score) of a float32: the exact value rounded to six
\* places, a tie to the even digit.
FormatF(v) ==
  LET Fixed(padded) ==
        DigitText(SubSeq(padded, 1, Len(padded) - 6)) \o <<".">>
        \o DigitText(SubSeq(padded, Len(padded) - 5, Len(padded)))
      Padded(q) == Fixed([i \in 1..(7 - Len(q)) |-> 0] \o q)
      Millionths(x) == Padded(RoundDigits([d |-> x.d, e |-> x.e + 6]))
  IN  IF IsNaN(v) THEN <<"N", "a", "N">>
      ELSE IF v.exp = 255
      THEN (IF v.sign = 1 THEN <<"-">> ELSE <<"+">>) \o <<"I", "n", "f">>
      ELSE (IF v.sign = 1 THEN <<"-">> ELSE <<>>) \o Millionths(Exact(v))

(***************************************************************************)
(* Tables (psy.Table, psy.Record).  A Record is a Go map: a function on    *)
(* the set of names it holds; a missing name reads as the empty string.    *)
(***************************************************************************)

Get(record, name) == IF name \in DOMAIN record THEN record[name] ELSE <<>>

Put(record, name, value) ==
  [n \in DOMAIN record \cup {name} |-> IF n = name THEN value ELSE record[n]]

EmptyRecord == [n \in {} |-> <<>>]

\* Table.HasField
HasField(t, name) == \E i \in 1..Len(t.FieldNames) : t.FieldNames[i] = name

\* An AddField that appends the name whether the table has it or not.
AddFieldAlways(t, name) == [t EXCEPT !.FieldNames = Append(@, name)]

\* Table.AddField
AddField(t, name) ==
  IF ~HasField(t, name)
  THEN [t EXCEPT !.FieldNames = Append(@, name)]
  ELSE t

\* Table.Record: the index of the first matching record, 0 for nil.
RecordIndex(t, name, value) ==
  IF \E i \in 1..Len(t.Records) : Get(t.Records[i], name) = value
  THEN CHOOSE i \in 1..Len(t.Records) :
         /\ Get(t.Records[i], name) = value
         /\ \A j \in 1..(i - 1) : Get(t.Records[j], name) # value
  ELSE 0

(***************************************************************************)
(* Files.  A path is a string, empty for none; a file holds CSV records (a      *)
(* sequence of rows of fields, the header first), plain text, or JSON      *)
(* lines.                                                                  *)
(***************************************************************************)

NoFile ==
  [exists |-> FALSE, csv |-> <<>>, text |-> <<>>, lines |-> <<>>, fault |-> "none"]
CsvFile(rows) ==
  [exists |-> TRUE, csv |-> rows, text |-> <<>>, lines |-> <<>>, fault |-> "none"]
TextFile(t) ==
  [exists |-> TRUE, csv |-> <<>>, text |-> t, lines |-> <<>>, fault |-> "none"]
\* A line-delimited JSON file: one object per line.
JsonlFile(items) ==
  [exists |-> TRUE, csv |-> <<>>, text |-> <<>>, lines |-> items, fault |-> "none"]

\* What writing to a path runs into: "none" when the file is written,
\* "create" when the file cannot be created (os.Create and os.WriteFile
\* return the error), "full" when the file is created or truncated and no
\* byte can be written to it: every write of the operating system fails.
Faults == {"none", "create", "full"}

Faulty(f, fault) == [f EXCEPT !.fault = fault]

\* The file under a path; the empty path names no file and none can be
\* created under it.
FileAt(fs, path) ==
  IF path = <<>> THEN Faulty(NoFile, "create")
  ELSE IF path \in DOMAIN fs THEN fs[path]
  ELSE NoFile

\* The disk with the file f under the path.
WriteFile(fs, path, f) ==
  IF path = <<>> THEN fs
  ELSE [q \in DOMAIN fs \cup {path} |-> IF q = path THEN f ELSE fs[q]]

F_system == <<"s", "y", "s", "t", "e", "m", ".", "t", "x", "t">>
F_prompt == <<"p", "r", "o", "m", "p", "t", ".", "t", "x", "t">>
F_questions == <<"q", "u", "e", "s", "t", "i", "o", "n", "s", ".", "c", "s", "v">>
F_answers == <<"a", "n", "s", "w", "e", "r", "s", ".", "c", "s", "v">>
F_data == <<"d", "a", "t", "a">>
F_out == <<"o", "u", "t", ".", "c", "s", "v">>
F_missing == <<"m", "i", "s", "s", "i", "n", "g", ".", "t", "x", "t">>
S_csv == <<".", "c", "s", "v">>
S_jsonl == <<".", "j", "s", "o", "n", "l">>

EmptyTable == [FieldNames |-> <<>>, Records |-> <<>>]

RECURSIVE HeaderNames(_, _, _)
\* The header loop of ReadCSVTable from cell i on: a name is trimmed, a blank
\* one becomes columnN, and each is appended to the table's names unless the
\* table has it already; the loop then stops with the names accepted so far.
HeaderNames(names, i, accepted) ==
  IF i > Len(names) THEN [err |-> FALSE, names |-> accepted]
  ELSE LET name == IF TrimSpace(names[i]) = <<>> THEN S_column \o Itoa(i)
                   ELSE TrimSpace(names[i])
       IN  IF \E j \in 1..Len(accepted) : accepted[j] = name
           THEN [err |-> TRUE, names |-> accepted]
           ELSE HeaderNames(names, i + 1, Append(accepted, name))

RECURSIVE ExtendNames(_, _)
\* Columns added for a row longer than the known field names.
ExtendNames(names, n) ==
  IF Len(names) >= n THEN names
  ELSE ExtendNames(Append(names, S_column \o Itoa(Len(names) + 1)), n)

RowRecord(names, row) ==
  [n \in {names[i] : i \in 1..Min2(Len(names), Len(row))} |->
     row[CHOOSE i \in 1..Min2(Len(names), Len(row)) :
           /\ names[i] = n
           /\ \A j \in (i + 1)..Min2(Len(names), Len(row)) : names[j] # n]]

RECURSIVE ReadRows(_, _, _)
\* The row loop of ReadCSVTable.  csv.Reader (FieldsPerRecord = 0) returns
\* ErrFieldCount for a row whose field count differs from the header's.
ReadRows(rows, expected, table) ==
  IF rows = <<>> THEN [err |-> FALSE, table |-> table]
  ELSE IF Len(Head(rows)) # expected THEN [err |-> TRUE, table |-> table]
  ELSE LET names == ExtendNames(table.FieldNames, Len(Head(rows)))
       IN  ReadRows(Tail(rows), expected,
                    [FieldNames |-> names,
                     Records |-> Append(table.Records, RowRecord(names, Head(rows)))])

\* psy.ReadCSVTable
ReadCSVTable(f) ==
  IF ~f.exists \/ f.csv = <<>> THEN [err |-> TRUE, table |-> EmptyTable]
  ELSE LET h == HeaderNames(f.csv[1], 1, <<>>)
           r == ReadRows(Tail(f.csv), Len(f.csv[1]),
                         [FieldNames |-> h.names, Records |-> <<>>])
       IN  IF h.err THEN [err |-> TRUE, table |-> [FieldNames |-> h.names, Records |-> <<>>]]
           ELSE IF r.err THEN r
           ELSE IF r.table.Records = <<>> THEN [err |-> TRUE, table |-> r.table]
           ELSE r

\* The records csv.Reader finds in what csv.Writer wrote for the records: the
\* writer writes a record without fields and a record of one empty field as
\* an empty line, and the reader skips empty lines; the reader also reads a
\* carriage return followed by a line feed as a line feed.
Written(records) ==
  SelectSeq([k \in 1..Len(records) |->
               [i \in 1..Len(records[k]) |->
                  ReplaceAll(records[k][i], <<"\r", "\n">>, <<"\n">>)]],
            LAMBDA r : r # <<>> /\ r # << <<>> >>)

\* The bytes of a character in UTF-8.
Utf8Len(c) ==
  IF Len(c) = 1 \/ Rune(c) < 128 THEN 1
  ELSE IF Rune(c) < 2048 THEN 2
  ELSE IF Rune(c) < 65536 THEN 3
  ELSE 4

\* len(s): the bytes of a string.
Bytes(s) ==
  Len(s) + Cardinality({i \in 1..Len(s) : Utf8Len(s[i]) >= 2})
         + Cardinality({i \in 1..Len(s) : Utf8Len(s[i]) >= 3})
         + Cardinality({i \in 1..Len(s) : Utf8Len(s[i]) = 4})

\* csv.Writer.fieldNeedsQuotes with the comma as delimiter.
FieldNeedsQuotes(field) ==
  /\ field # <<>>
  /\ \/ field = <<"\\", ".">>
     \/ \E i \in 1..Len(field) : field[i] \in {"\n", "\r", "\"", ","}
     \/ field[1] \in WhiteSpace

\* The bytes csv.Writer.Write hands to its buffered writer for a field: a
\* quoted field comes between two quotes with each of its quotes doubled.
FieldBytes(field) ==
  IF FieldNeedsQuotes(field)
  THEN 2 + Bytes(field) + Cardinality({i \in 1..Len(field) : field[i] = "\""})
  ELSE Bytes(field)

\* The bytes of the first n fields of a record, commas included.
RECURSIVE FieldsBytes(_, _)
FieldsBytes(record, n) ==
  IF n = 0 THEN 0
  ELSE FieldsBytes(record, n - 1) + (IF n > 1 THEN 1 ELSE 0) + FieldBytes(record[n])

\* The bytes of the first n records, each ended by a line feed.
RECURSIVE RecordsBytes(_, _)
RecordsBytes(records, n) ==
  IF n = 0 THEN 0
  ELSE RecordsBytes(records, n - 1) + FieldsBytes(records[n], Len(records[n])) + 1

\* bufio.defaultBufSize: csv.NewWriter writes through a buffer of this size.
BufferSize == 4096

\* The header and the rows Table.WriteCSV hands to the writer: the cells of
\* each record in the order of the field names.
CSVRecords(t) ==
  <<t.FieldNames>> \o
  [k \in 1..Len(t.Records) |->
     [i \in 1..Len(t.FieldNames) |-> Get(t.Records[k], t.FieldNames[i])]]

\* Table.WriteCSV on the file f under the path: the error it returns and the
\* file it leaves.  The header, then each record, go to a buffered writer.
\* The buffer is written to the file when it cannot take the next bytes and
\* by the Flush at the end.  On a file that takes no byte, the write of a
\* record returns the error only if the buffer overflows at that record;
\* the error of the final Flush is never read, and WriteCSV returns nil with
\* nothing written.
WriteCSV(f, t) ==
  IF f.fault = "create" THEN [err |-> TRUE, file |-> f]
  ELSE IF f.fault = "full"
  THEN [err |-> RecordsBytes(CSVRecords(t), Len(CSVRecords(t))) > BufferSize,
        file |-> Faulty(CsvFile(<<>>), f.fault)]
  ELSE [err |-> FALSE, file |-> CsvFile(Written(CSVRecords(t)))]

\* os.WriteFile of the batch input lines on the file f under the path: one
\* write of all lines, which fails on a file that takes no byte unless there
\* is nothing to write.
WriteInput(f, items) ==
  IF f.fault = "create" THEN [err |-> TRUE, file |-> f]
  ELSE IF f.fault = "full"
  THEN [err |-> items # <<>>, file |-> Faulty(JsonlFile(<<>>), f.fault)]
  ELSE [err |-> FALSE, file |-> JsonlFile(items)]

\* psy.ReadTextFile; an empty path reads as the empty string.  The file cache
\* returns what the first read returned; no file changes while a command runs.
ReadTextFile(fs, path) ==
  IF path = <<>> THEN [err |-> FALSE, text |-> <<>>]
  ELSE IF ~FileAt(fs, path).exists THEN [err |-> TRUE, text |-> <<>>]
  ELSE [err |-> FALSE, text |-> FileAt(fs, path).text]

RECURSIVE FieldsMap(_, _, _, _)
FieldsMap(records, keyField, valueField, acc) ==
  IF records = <<>> THEN acc
  ELSE LET key == CleanText(Get(Head(records), keyField))
           value == CleanText(Get(Head(records), valueField))
       IN  FieldsMap(Tail(records), keyField, valueField,
                     IF Len(key) > 0 /\ Len(value) > 0 THEN Put(acc, key, value)
                     ELSE acc)

\* psy.ReadCSVFields
ReadCSVFields(fs, path, keyField, valueField) ==
  IF path = <<>> THEN [err |-> FALSE, fields |-> EmptyRecord]
  ELSE IF Len(keyField) = 0 \/ Len(valueField) = 0
       THEN [err |-> TRUE, fields |-> EmptyRecord]
  ELSE LET r == ReadCSVTable(FileAt(fs, path))
       IN  IF r.err \/ ~HasField(r.table, keyField) \/ ~HasField(r.table, valueField)
           THEN [err |-> TRUE, fields |-> EmptyRecord]
           ELSE [err |-> FALSE,
                 fields |-> FieldsMap(r.table.Records, keyField, valueField, EmptyRecord)]

\* psy.ReadCSVField
ReadCSVField(fs, path, id, field) ==
  IF path = <<>> THEN [err |-> FALSE, text |-> <<>>]
  ELSE IF Len(id) = 0 \/ Len(field) = 0 THEN [err |-> TRUE, text |-> <<>>]
  ELSE LET r == ReadCSVTable(FileAt(fs, path))
           nameValue == Split(id, "=")
       IN  IF r.err \/ Len(nameValue) # 2 THEN [err |-> TRUE, text |-> <<>>]
           ELSE IF ~HasField(r.table, nameValue[1]) THEN [err |-> TRUE, text |-> <<>>]
           ELSE LET k == RecordIndex(r.table, nameValue[1], nameValue[2])
                IN  IF k = 0 \/ ~HasField(r.table, field)
                    THEN [err |-> TRUE, text |-> <<>>]
                    ELSE IF Len(CleanText(Get(r.table.Records[k], field))) = 0
                    THEN [err |-> TRUE, text |-> <<>>]
                    ELSE [err |-> FALSE,
                          text |-> CleanText(Get(r.table.Records[k], field))]

(***************************************************************************)
(* Chats and request building (psy.NewChat, cli generateChatRequests)      *)
(***************************************************************************)

ZeroResponse == [ID |-> "", Choices |-> <<>>]

\* psy.NewChat
NewChat(id, system, prompt, model, temperature, maxTokens) ==
  [ID |-> id,
   Request |-> [Model |-> model,
                Messages |-> (IF Len(system) > 0
                              THEN <<[Role |-> "system", Content |-> system]>>
                              ELSE <<>>)
                             \o <<[Role |-> "user", Content |-> prompt]>>,
                Temperature |-> temperature,
                MaxTokens |-> maxTokens,
                User |-> id],
   Response |-> ZeroResponse,
   Scores |-> <<>>,
   ErrMsg |-> <<>>,
   Millis |-> 0]

\* tuid.NewID().String(): the n-th identifier minted; no two are equal.
NewID(n) == <<"t">> \o Itoa(n)

\* Client.ValidModel.  model is what Client.ReadModel returns for the id: an
\* error, or the model the provider's answer decodes to, whose ID is cached
\* whether it is the id asked for or not; called tells whether the gateway
\* was asked.
ValidModel(common, model, id) ==
  IF id \in common THEN [valid |-> TRUE, called |-> FALSE, common |-> common]
  ELSE IF model.err THEN [valid |-> FALSE, called |-> TRUE, common |-> common]
  ELSE [valid |-> model.ID = id, called |-> TRUE,
        common |-> common \cup {model.ID}]

\* A check of the question ids that reports none unknown.
UnknownQuestionsNone(records, questionID, questions) == <<>>

RECURSIVE UnknownQuestions(_, _, _)
\* The question ids of the answer records that the questions map lacks.
UnknownQuestions(records, questionID, questions) ==
  IF records = <<>> THEN <<>>
  ELSE (IF Get(Head(records), questionID) \in DOMAIN questions THEN <<>>
        ELSE <<Get(Head(records), questionID)>>)
       \o UnknownQuestions(Tail(records), questionID, questions)

RECURSIVE GenLoopAll(_, _, _)
\* A request loop that builds a chat for every record, blank answers too.
GenLoopAll(idxs, st, ctx) ==
  IF idxs = <<>> THEN st
  ELSE LET k == Head(idxs)
           a == st.answers.Records[k]
           chatID == NewID(st.nextID)
           chat == NewChat(chatID, ctx.system, ctx.template, ctx.flags.model,
                           ctx.flags.temperature, ctx.flags.maxTokens)
       IN  GenLoopAll(Tail(idxs),
                      [answers |-> [st.answers EXCEPT
                                      !.Records[k] = Put(a, S_chatID, chatID)],
                       chats |-> Append(st.chats, chat),
                       nextID |-> st.nextID + 1],
                      ctx)

RECURSIVE GenLoop(_, _, _)
\* The request loop of generateChatRequests over the selected records;
\* st holds the table, the chats so far and the next identifier.
GenLoop(idxs, st, ctx) ==
  IF idxs = <<>> THEN st
  ELSE LET k == Head(idxs)
           a == st.answers.Records[k]
           answer == CleanText(Get(a, ctx.p.AnswerField))
           chatID == NewID(st.nextID)
           a2 == Put(a, S_chatID, chatID)
           q == IF ctx.lookup THEN Get(ctx.questions, Get(a2, ctx.p.QuestionID))
                ELSE ctx.question
           prompt == ReplaceAll(ReplaceAll(ctx.template, S_questionMarker, q),
                                S_answerMarker, answer)
           chat == NewChat(chatID, ctx.system, prompt, ctx.flags.model,
                           ctx.flags.temperature, ctx.flags.maxTokens)
       IN  IF answer = <<>>
           THEN GenLoop(Tail(idxs),
                        [st EXCEPT !.answers.Records[k] = Put(a, S_chatID, <<>>)],
                        ctx)
           ELSE GenLoop(Tail(idxs),
                        [answers |-> [st.answers EXCEPT !.Records[k] = a2],
                         chats |-> Append(st.chats, chat),
                         nextID |-> st.nextID + 1],
                        ctx)

GenResult(err, chats, answers, vm, nextID) ==
  [err |-> err, chats |-> chats, answers |-> answers,
   lookups |-> IF vm.called THEN 1 ELSE 0, common |-> vm.common, nextID |-> nextID]

\* The record selection of generateChatRequests: the indices of the selected
\* records, or the error it returns.  pick is the index rand.Intn draws.
SelectRecords(p, flags, answers, pick) ==
  IF p.AnswerID = S_random
  THEN IF Len(answers.Records) = 0 THEN [err |-> "no records", idxs |-> <<>>]
       ELSE [err |-> "", idxs |-> <<((pick - 1) % Len(answers.Records)) + 1>>]
  ELSE IF p.AnswerID # <<>>
  THEN LET nameValue == Split(flags.answerID, "=")
       IN  IF Len(nameValue) # 2 THEN [err |-> "answer id", idxs |-> <<>>]
           ELSE IF ~HasField(answers, nameValue[1])
           THEN [err |-> "answer id field", idxs |-> <<>>]
           ELSE IF RecordIndex(answers, nameValue[1], nameValue[2]) = 0
           THEN [err |-> "answer not found", idxs |-> <<>>]
           ELSE [err |-> "",
                 idxs |-> <<RecordIndex(answers, nameValue[1], nameValue[2])>>]
  ELSE [err |-> "", idxs |-> [i \in 1..Len(answers.Records) |-> i]]

\* ChatCommand.generateChatRequests.  The result holds the error ("" for nil),
\* the chats, the answers table, the number of gateway model lookups made,
\* the model cache and the next identifier.
GenerateChatRequests(p, flags, fs, common, model, nextID, pick) ==
  LET vm == ValidModel(common, model, p.Model)
      system == ReadTextFile(fs, p.SystemFile)
      template == ReadTextFile(fs, p.PromptFile)
      fixed == p.QuestionFile # <<>> /\ Contains(p.QuestionID, "=")
      lookup == p.QuestionFile # <<>> /\ ~Contains(p.QuestionID, "=")
      one == ReadCSVField(fs, p.QuestionFile, p.QuestionID, p.QuestionField)
      many == ReadCSVFields(fs, p.QuestionFile, p.QuestionID, p.QuestionField)
      at == ReadCSVTable(FileAt(fs, p.AnswerFile))
      answers == at.table
      sel == SelectRecords(p, flags, answers, pick)
      ctx == [p |-> p, flags |-> flags, system |-> system.text,
              template |-> template.text, lookup |-> lookup,
              questions |-> many.fields, question |-> IF fixed THEN one.text ELSE <<>>]
      done == GenLoop(sel.idxs,
                      [answers |-> AddField(answers, S_chatID), chats |-> <<>>,
                       nextID |-> nextID],
                      ctx)
      Fail(e, t) == GenResult(e, <<>>, t, vm, nextID)
  IN  IF ~vm.valid THEN Fail("model", EmptyTable)
      ELSE IF ~IsValid(p.ScoreSelect) THEN Fail("score selection", EmptyTable)
      ELSE IF system.err THEN Fail("system file", EmptyTable)
      ELSE IF template.err THEN Fail("prompt file", EmptyTable)
      ELSE IF fixed /\ one.err THEN Fail("read question", EmptyTable)
      ELSE IF lookup /\ many.err THEN Fail("read questions", EmptyTable)
      ELSE IF at.err THEN Fail("answer file", EmptyTable)
      ELSE IF ~HasField(answers, p.AnswerField) THEN Fail("answer field", answers)
      ELSE IF lookup /\ ~HasField(answers, p.QuestionID)
      THEN Fail("question id field", answers)
      ELSE IF lookup /\ Len(UnknownQuestions(answers.Records, p.QuestionID,
                                             many.fields)) > 0
      THEN Fail("unknown question ids", answers)
      ELSE IF sel.err # "" THEN Fail(sel.err, answers)
      ELSE GenResult("", done.chats, done.answers, vm, done.nextID)

(***************************************************************************)
(* The remote chat-completion call (openai.Client.CompleteChat) and the    *)
(* merge of results into the table                                         *)
(***************************************************************************)

S_errSend == <<"e", "r", "r", " ", "5", "0", "0">>
S_errJSON == <<"e", "r", "r", " ", "j", "s", "o", "n">>
S_errMarshal == <<"e", "r", "r", " ", "v", "a", "l", "u", "e">>

\* json.Marshal of a chat request returns nil: its temperature is a number.
\* A NaN and an infinity are unsupported values; no other field of the
\* request can fail.
CanMarshal(req) == req.Temperature.exp # 255

\* Client.CompleteChatRaw on the request and the reply of the HTTP exchange:
\* the error of json.Marshal on the request, after which no exchange takes
\* place, or the error of a failed exchange; nothing of the body is decoded.
CompleteChatRaw(req, reply) ==
  IF ~CanMarshal(req) THEN S_errMarshal
  ELSE IF reply.transport # "ok" THEN S_errSend
  ELSE <<>>

\* Client.CompleteChat on the request and the reply of the HTTP exchange.  A
\* request that cannot be marshalled and a failed exchange return the zero
\* response; a reply whose JSON has a value of the wrong type returns the
\* json.Unmarshal error together with the fields it did decode; any other
\* body is returned as decoded, the zero response for an empty JSON object.
CompleteChat(req, reply) ==
  IF CompleteChatRaw(req, reply) # <<>>
  THEN [resp |-> ZeroResponse, err |-> CompleteChatRaw(req, reply)]
  ELSE IF ~reply.typed THEN [resp |-> reply.body, err |-> S_errJSON]
  ELSE [resp |-> reply.body, err |-> <<>>]

\* ChatResponse.FirstMessageContent
FirstMessageContent(resp) ==
  IF Len(resp.Choices) = 0 THEN [err |-> S_noChoices, text |-> <<>>]
  ELSE IF Len(resp.Choices[1]) = 0 THEN [err |-> S_noContent, text |-> <<>>]
  ELSE [err |-> <<>>, text |-> resp.Choices[1]]

\* The body of a worker of CompleteChatBatch, from the reply to the chat it
\* sends on the results channel.
CompleteWorker(chat, reply, sel, millis) ==
  LET r == CompleteChat(chat.Request, reply)
      withResp == [chat EXCEPT !.Response = r.resp]
      fm == FirstMessageContent(r.resp)
      done == IF r.err # <<>> THEN [withResp EXCEPT !.ErrMsg = r.err]
              ELSE IF fm.err = <<>>
              THEN [withResp EXCEPT !.ErrMsg = <<>>,
                                    !.Scores = SelectScores(fm.text, sel)]
              ELSE [withResp EXCEPT !.ErrMsg = <<>>]
  IN  [done EXCEPT !.Millis = millis]

RECURSIVE BatchFrom(_, _, _, _)
BatchFrom(items, batchSize, batch, batches) ==
  IF items = <<>>
  THEN IF Len(batch) > 0 THEN Append(batches, batch) ELSE batches
  ELSE IF Len(batch) + 1 = batchSize
       THEN BatchFrom(Tail(items), batchSize, <<>>,
                      Append(batches, Append(batch, Head(items))))
       ELSE BatchFrom(Tail(items), batchSize, Append(batch, Head(items)), batches)

\* A division that keeps the full groups only and drops what is left over.
BatchFull(items, batchSize) ==
  SelectSeq(BatchFrom(items, batchSize, <<>>, <<>>),
            LAMBDA batch : Len(batch) = batchSize)

\* psy.Batch
Batch(items, batchSize) == BatchFrom(items, batchSize, <<>>, <<>>)

\* The score column of the i-th score (i from 1) given the largest score
\* count seen so far.
ScoreFieldName(scoreField, maxScoreCount, i) ==
  IF maxScoreCount > 1 THEN scoreField \o Itoa(i) ELSE scoreField

RECURSIVE PutScores(_, _, _, _, _)
PutScores(record, scores, i, scoreField, maxScoreCount) ==
  IF i > Len(scores) THEN record
  ELSE PutScores(Put(record, ScoreFieldName(scoreField, maxScoreCount, i),
                     FormatF(scores[i])),
                 scores, i + 1, scoreField, maxScoreCount)

Max2(a, b) == IF a > b THEN a ELSE b

\* The completion text and error count the parallel command derives from a chat.
ParallelCompletion(chat) ==
  IF chat.ErrMsg # <<>> THEN [text |-> chat.ErrMsg, errors |-> 1]
  ELSE IF FirstMessageContent(chat.Response).err # <<>>
  THEN [text |-> FirstMessageContent(chat.Response).err, errors |-> 1]
  ELSE [text |-> FirstMessageContent(chat.Response).text, errors |-> 0]

RECURSIVE ParallelMergeLoop(_, _, _, _, _, _)
\* The record loop of parallel that adds completions and scores to the rows.
ParallelMergeLoop(records, k, results, scoreField, maxScoreCount, errorCount) ==
  IF k > Len(records)
  THEN [records |-> records, maxScoreCount |-> maxScoreCount,
        errorCount |-> errorCount]
  ELSE LET a == records[k]
           chatID == Get(a, S_chatID)
       IN  IF chatID = <<>> \/ chatID \notin DOMAIN results
           THEN ParallelMergeLoop(records, k + 1, results, scoreField,
                                  maxScoreCount, errorCount)
           ELSE LET chat == results[chatID]
                    c == ParallelCompletion(chat)
                    m == Max2(maxScoreCount, Len(chat.Scores))
                    a2 == PutScores(Put(a, S_completion, c.text), chat.Scores, 1,
                                    scoreField, m)
                IN  ParallelMergeLoop([records EXCEPT ![k] = a2], k + 1, results,
                                      scoreField, m, errorCount + c.errors)

RECURSIVE AddScoreFields(_, _, _, _)
AddScoreFields(t, scoreField, i, maxScoreCount) ==
  IF i > maxScoreCount THEN t
  ELSE AddScoreFields(AddField(t, scoreField \o Itoa(i)), scoreField, i + 1,
                      maxScoreCount)

\* The field names added after the record loop.
AddResultFields(t, scoreField, maxScoreCount) ==
  IF maxScoreCount = 1 THEN AddField(AddField(t, S_completion), scoreField)
  ELSE IF maxScoreCount > 1
  THEN AddScoreFields(AddField(t, S_completion), scoreField, 1, maxScoreCount)
  ELSE AddField(t, S_completion)

\* The table the parallel command writes: rows merged, then fields added.
ParallelMerge(answers, results, scoreField) ==
  LET m == ParallelMergeLoop(answers.Records, 1, results, scoreField, 0, 0)
  IN  AddResultFields([answers EXCEPT !.Records = m.records], scoreField,
                      m.maxScoreCount)

(***************************************************************************)
(* Inputs: the command line, the files on disk and the remote's replies    *)
(***************************************************************************)

MaxRows == 3          \* rows of the answer file of the batch and random commands
MaxParallelRows == 2  \* rows of the answer file of the parallel command
MaxBatchSize == 2     \* the --batch-size flag of the parallel command
MaxClock == 1         \* milliseconds the clock may advance during a run
MaxReads == 2         \* status reads counted while polling

\* openai.CommonModels
CommonModels ==
  {"gpt-3.5-turbo", "gpt-3.5-turbo-16k", "gpt-3.5-turbo-instruct",
   "gpt-4", "gpt-4-turbo", "gpt-4-turbo-preview"}

\* The models Client.ReadModel finds at the provider.
RemoteModels == CommonModels \cup {"gpt-4o"}

\* What Client.ReadModel may return for an id (GET /models/<id>): the model
\* of that id if the provider has it; for a name the provider resolves to
\* one of its models, that model, whose ID is another; for the empty id,
\* the answer to GET /models/, a list that decodes to a model without an ID,
\* or an error; for any other id an error.
ReadModel(id) ==
  IF id \in RemoteModels THEN {[err |-> FALSE, ID |-> id]}
  ELSE IF id = "latest" THEN {[err |-> FALSE, ID |-> "gpt-4o"]}
  ELSE IF id = "" THEN {[err |-> FALSE, ID |-> ""], [err |-> TRUE, ID |-> ""]}
  ELSE {[err |-> TRUE, ID |-> ""]}

S_a == <<"a">>
S_q == <<"q">>
S_t == <<"t">>
S_z == <<"z">>
S_best == <<"b", "e", "s", "t">>
S_ALL == <<"A", "L", "L">>
S_First == <<"F", "i", "r", "s", "t">>
\* FIRST written with the capital dotted I, which unicode.ToLower maps to i.
S_FIRST == <<"F", "U+0130", "R", "S", "T">>

\* questions.csv: a key column q and a text column t.
QuestionsCSV ==
  CsvFile(<< <<S_q, S_t>>, << <<"1">>, <<"W", "h", "y", "?">> >> >>)

\* prompt.txt, the template with both markers.
PromptText == S_questionMarker \o <<"|">> \o S_answerMarker

\* A row of answers.csv: a question key (known or unknown) and an answer
\* (blank after cleaning, or text).
AnswerRows ==
  { <<k, a>> : k \in { <<"1">>, <<"9">> }, a \in { <<" ", "\t">>, <<"o", "k">> } }

RECURSIVE SeqsUpTo(_, _)
\* The sequences over S of length 1..n.
SeqsUpTo(S, n) ==
  IF n = 0 THEN {}
  ELSE LET shorter == SeqsUpTo(S, n - 1)
       IN  { <<x>> : x \in S } \cup shorter
           \cup { Append(q, x) : q \in shorter, x \in S }

AnswerTables == SeqsUpTo(AnswerRows, MaxRows)

\* Answer files that already have a score column with a value in each row,
\* such as the output file of an earlier run.
ScoredTables == SeqsUpTo({ << <<"1">>, <<"o", "k">>, <<"9">> >> }, 2)

\* The disk with the answer rows in answers.csv and no output file yet.
Disk(rows) ==
  [path \in {F_system, F_prompt, F_questions, F_answers, F_out} |->
     CASE path = F_system -> TextFile(<<"S">>)
       [] path = F_prompt -> TextFile(PromptText)
       [] path = F_questions -> QuestionsCSV
       [] path = F_answers ->
            CsvFile(<< IF rows # <<>> /\ Len(rows[1]) = 3 THEN <<S_q, S_a, S_score>>
                       ELSE <<S_q, S_a>> >> \o rows)
       [] OTHER -> NoFile]

\* The flags of a chat command (the fields of ChatCommand the flags set).
Flags(model, scoreSelect, questionID, questionField, answerField, answerID) ==
  [model |-> model, temperature |-> F32(0, 126, 0), maxTokens |-> 0, raw |-> FALSE,
   questionField |-> questionField, questionID |-> questionID,
   answerField |-> answerField, answerID |-> answerID,
   scoreField |-> S_score, scoreSelect |-> scoreSelect]

\* The question flags: none, a key column shared by both files, one fixed
\* question (name=value), and a key column the answer file lacks.
QuestionFlags ==
  { [file |-> <<>>, id |-> <<>>, field |-> <<>>],
    [file |-> F_questions, id |-> S_q, field |-> S_t],
    [file |-> F_questions, id |-> <<"q", "=", "1">>, field |-> S_t],
    [file |-> F_questions, id |-> S_t, field |-> S_t] }

\* strings.TrimSuffix(answerPath, ".csv") + ".jsonl"
InputPath(answerPath) == TrimSuffix(answerPath, S_csv) \o S_jsonl

\* The ChatParameters the random, parallel and batch handlers build.
Parameters(cmd, c, outputPath, answerPath, questionPath) ==
  [InputFile |-> IF cmd = "batch" THEN InputPath(answerPath) ELSE <<>>,
   OutputFile |-> IF cmd = "random" THEN <<>> ELSE outputPath,
   SystemFile |-> F_system,
   PromptFile |-> F_prompt,
   QuestionFile |-> questionPath,
   QuestionField |-> c.questionField,
   QuestionID |-> c.questionID,
   AnswerFile |-> answerPath,
   AnswerField |-> c.answerField,
   AnswerID |-> IF cmd = "random" THEN c.answerID ELSE <<>>,
   ScoreField |-> c.scoreField,
   ScoreSelect |-> ToLower(c.scoreSelect),
   Model |-> c.model,
   Temperature |-> c.temperature,
   MaxTokens |-> c.maxTokens]

\* The replies of the provider to one chat-completion request: a status of
\* success with a completion of one or two numbers, without choices, with a
\* first message without content, or with the empty JSON object as its body
\* (which decodes to the zero response without an error); a failed exchange;
\* and a body with a value of the wrong type.
Replies ==
  { [transport |-> "ok", typed |-> TRUE, body |-> [ID |-> "r", Choices |-> << <<"7">> >>]],
    [transport |-> "ok", typed |-> TRUE,
     body |-> [ID |-> "r", Choices |-> << <<"3", "\t", "7", ".">> >>]],
    [transport |-> "ok", typed |-> TRUE, body |-> [ID |-> "r", Choices |-> <<>>]],
    [transport |-> "ok", typed |-> TRUE, body |-> [ID |-> "r", Choices |-> << <<>> >>]],
    [transport |-> "ok", typed |-> TRUE, body |-> ZeroResponse],
    [transport |-> "error", typed |-> TRUE, body |-> ZeroResponse],
    [transport |-> "ok", typed |-> FALSE,
     body |-> [ID |-> "r", Choices |-> << <<"7">> >>]] }

(***************************************************************************)
(* State                                                                   *)
(***************************************************************************)

VARIABLES
  inv,           \* the invocation: command, flags and arguments
  pc,            \* where the command's goroutine is
  err,           \* the error the command returned, "" for none
  files,         \* the disk
  commonModels,  \* openai.CommonModels, the cache of valid model ids
  nextID,        \* the number of the next identifier tuid mints
  calls,         \* gateway requests made, by operation
  chats,         \* the chats generateChatRequests returned
  answers,       \* the answers table
  par,           \* the locals of parallel and of its CompleteChatBatch call,
                 \* with the number of CompleteChatBatch calls made
  workers,       \* the goroutines of the running CompleteChatBatch call
  sent,          \* chat id -> chat-completion requests sent for it
  now,           \* the monotonic clock, in milliseconds
  provider,      \* the provider's batch job
  bat,           \* the locals of batchCreate and processBatchResults
  call,          \* a call of a library function made on its own: its name
                 \* and arguments
  result         \* what that call returned

vars ==
  <<inv, pc, err, files, commonModels, nextID, calls, chats, answers, par,
    workers, sent, now, provider, bat, call, result>>

\* No library call is made on its own while a command runs.
NoCall == [fn |-> "none"]

NoResult == [done |-> FALSE]

\* The ChatParameters of the running command.
P == Parameters(inv.cmd, inv.c, inv.outputPath, inv.answerPath, inv.questionPath)

EmptyMap == [k \in {} |-> 0]

Count(f, k) == IF k \in DOMAIN f THEN f[k] ELSE 0

ParInit ==
  [batches |-> <<>>, bi |-> 1, pass |-> "none", channel |-> <<>>, ret |-> EmptyMap,
   results |-> EmptyMap, retries |-> <<>>, count |-> 0, invoked |-> 0]

\* No batch job at the provider.
NoBatch ==
  [exists |-> FALSE, Status |-> "", Metadata |-> EmptyMap, input |-> <<>>,
   files |-> FALSE, items |-> EmptyMap]

\* outputPath, scoreField and scoreSelect are the locals of processBatchResults.
BatInit ==
  [uploaded |-> <<>>, Status |-> "", reconciled |-> 0, outputPath |-> <<>>,
   scoreField |-> <<>>, scoreSelect |-> <<>>]

Invocation(cmd, c, q, rows, batchSize, wait, inputOnly) ==
  [cmd |-> cmd,
   c |-> [c EXCEPT !.questionID = q.id, !.questionField = q.field],
   outputPath |-> F_out, answerPath |-> F_answers,
   questionPath |-> q.file, rows |-> rows,
   batchSize |-> batchSize, wait |-> wait, inputOnly |-> inputOnly,
   fault |-> [path |-> <<>>, kind |-> "none"]]

\* The disk a command starts on: the answer rows under its answer path, and
\* the fault a write to one of the paths runs into.
DiskOf(i) ==
  LET d == Disk(i.rows)
      moved == IF i.answerPath = F_answers THEN d
               ELSE WriteFile([d EXCEPT ![F_answers] = NoFile], i.answerPath,
                              d[F_answers])
  IN  IF i.fault.kind = "none" THEN moved
      ELSE WriteFile(moved, i.fault.path,
                     Faulty(FileAt(moved, i.fault.path), i.fault.kind))

ParallelInvocations ==
  { Invocation("parallel",
               Flags("gpt-4o", sel, <<>>, <<>>, S_a, <<>>),
               [file |-> F_questions, id |-> S_q, field |-> S_t],
               rows, b, 0, FALSE) :
      sel \in {Last, All}, rows \in SeqsUpTo(AnswerRows, MaxParallelRows),
      b \in 1..MaxBatchSize }
  \cup
  { [Invocation("parallel",
                Flags("gpt-4o", Last, <<>>, <<>>, S_a, <<>>),
                [file |-> F_questions, id |-> S_q, field |-> S_t],
                rows, 1, 0, FALSE)
       EXCEPT !.fault = [path |-> F_out, kind |-> k]] :
      rows \in SeqsUpTo(AnswerRows, 1), k \in Faults \ {"none"} }
  \cup
  { Invocation("parallel",
               [Flags("gpt-4o", Last, <<>>, <<>>, S_a, <<>>) EXCEPT !.temperature = t],
               [file |-> F_questions, id |-> S_q, field |-> S_t],
               rows, 1, 0, FALSE) :
      rows \in SeqsUpTo(AnswerRows, 1), t \in {NaN32, Inf32(0)} }

\* The --wait and --input-only flags of the batch command.
WaitFlags == { <<0, FALSE>>, <<0, TRUE>>, <<10, FALSE>>, <<10, TRUE>> }

\* The batch command on every answer table with the default model, on the
\* one-row tables with every combination of valid and invalid flags, on the
\* answer tables that already have a score column, and with the --score-field
\* and --score-select flags set by the user (a name, no name, and a name with a
\* leading space).
BatchInvocations ==
  { Invocation("batch", Flags("gpt-4o", sel, <<>>, <<>>, S_a, <<>>), q, rows, 0,
               w[1], w[2]) :
      sel \in {Last, All}, q \in QuestionFlags, rows \in AnswerTables,
      w \in WaitFlags }
  \cup
  { Invocation("batch", Flags(m, sel, <<>>, <<>>, af, <<>>), q, rows, 0,
               w[1], w[2]) :
      m \in {"gpt-4", "gpt-4o", "gpt-x"}, sel \in {Last, S_best},
      af \in {S_a, S_z}, q \in QuestionFlags, rows \in SeqsUpTo(AnswerRows, 1),
      w \in WaitFlags }
  \cup
  { Invocation("batch", Flags("gpt-4o", sel, <<>>, <<>>, S_a, <<>>),
               [file |-> <<>>, id |-> <<>>, field |-> <<>>], rows, 0, 10, FALSE) :
      sel \in {Last, All}, rows \in ScoredTables }
  \cup
  { Invocation("batch",
               [Flags("gpt-4o", sel, <<>>, <<>>, S_a, <<>>) EXCEPT !.scoreField = sf],
               [file |-> <<>>, id |-> <<>>, field |-> <<>>], rows, 0, w, FALSE) :
      sel \in {Last, S_ALL, S_FIRST}, sf \in {S_score, S_z, <<>>, <<" ", "b">>},
      rows \in SeqsUpTo(AnswerRows, 1), w \in {0, 10} }
  \cup
  { [Invocation("batch", Flags(m, Last, <<>>, <<>>, S_a, <<>>),
                [file |-> <<>>, id |-> <<>>, field |-> <<>>], rows, 0, w[1], w[2])
       EXCEPT !.answerPath = ap] :
      m \in {"gpt-4o", "latest", ""}, ap \in {F_answers, F_data, <<>>},
      rows \in SeqsUpTo(AnswerRows, 1), w \in WaitFlags }
  \cup
  { [Invocation("batch", Flags("gpt-4o", Last, <<>>, <<>>, S_a, <<>>),
                [file |-> <<>>, id |-> <<>>, field |-> <<>>], rows, 0, w[1], w[2])
       EXCEPT !.fault = [path |-> fp, kind |-> k]] :
      fp \in {F_out, InputPath(F_answers)}, k \in Faults \ {"none"},
      rows \in SeqsUpTo(AnswerRows, 1), w \in WaitFlags }
  \cup
  { Invocation("batch",
               [Flags("gpt-4o", Last, <<>>, <<>>, S_a, <<>>) EXCEPT !.temperature = t],
               [file |-> <<>>, id |-> <<>>, field |-> <<>>], rows, 0, w[1], w[2]) :
      rows \in SeqsUpTo(AnswerRows, 1), w \in WaitFlags,
      t \in {NaN32, Inf32(0)} }

RandomInvocations ==
  { Invocation("random", Flags("gpt-4o", Last, <<>>, <<>>, S_a, id),
               [file |-> <<>>, id |-> <<>>, field |-> <<>>], rows, 0, 0, FALSE) :
      id \in { S_random, <<"a", "=", "o", "k">>, <<"q", "=", "5">>, <<"a">>,
               <<"z", "=", "1">> },
      rows \in AnswerTables }
  \cup
  { Invocation("random",
               [Flags("gpt-4o", Last, <<>>, <<>>, S_a, S_random) EXCEPT !.raw = TRUE],
               [file |-> <<>>, id |-> <<>>, field |-> <<>>], rows, 0, 0, FALSE) :
      rows \in SeqsUpTo(AnswerRows, 1) }
  \cup
  { Invocation("random",
               [Flags("gpt-4o", Last, <<>>, <<>>, S_a, S_random)
                  EXCEPT !.raw = raw, !.temperature = t],
               [file |-> <<>>, id |-> <<>>, field |-> <<>>], rows, 0, 0, FALSE) :
      rows \in SeqsUpTo(AnswerRows, 1), raw \in BOOLEAN,
      t \in {NaN32, Inf32(0)} }

InitWith(invocations) ==
  /\ inv \in invocations
  /\ pc = "start"
  /\ err = ""
  /\ files = DiskOf(inv)
  /\ commonModels = CommonModels
  /\ nextID = 1
  /\ calls = [readModel |-> 0, chat |-> 0, upload |-> 0, createBatch |-> 0,
              readBatch |-> 0, readResponses |-> 0]
  /\ chats = <<>>
  /\ answers = EmptyTable
  /\ par = ParInit
  /\ workers = <<>>
  /\ sent = EmptyMap
  /\ now = 0
  /\ provider = NoBatch
  /\ bat = BatInit
  /\ call = NoCall
  /\ result = NoResult

\* The states in which the parallel, batch and random commands start.
InitParallel == InitWith(ParallelInvocations)

InitBatch == InitWith(BatchInvocations)

InitRandom == InitWith(RandomInvocations)

(***************************************************************************)
(* Request building, the first step of random, parallel and batchCreate    *)
(***************************************************************************)

\* Where a handler goes once generateChatRequests has returned without error.
AfterGenerate(cmd, g) ==
  CASE cmd = "parallel" ->
         IF Len(Batch(g.chats, inv.batchSize)) = 0 THEN "merge" ELSE "loop"
    [] cmd = "batch" -> "upload"
    [] OTHER -> IF Len(g.chats) = 0 THEN "done" ELSE "complete"

GenerateRequests ==
  /\ pc = "start"
  /\ \E pick \in 1..MaxRows, model \in ReadModel(inv.c.model) :
       \E g \in {GenerateChatRequests(P, inv.c, files, commonModels, model,
                                      nextID, pick)} :
           /\ calls' = [calls EXCEPT !.readModel = @ + g.lookups]
           /\ commonModels' = g.common
           /\ nextID' = g.nextID
           /\ chats' = g.chats
           /\ answers' = g.answers
           /\ IF g.err # ""
              THEN /\ err' = g.err
                   /\ pc' = "done"
                   /\ par' = par
              ELSE /\ err' = IF inv.cmd = "random" /\ Len(g.chats) = 0
                             THEN "no chat request generated" ELSE ""
                   /\ pc' = AfterGenerate(inv.cmd, g)
                   /\ par' = IF inv.cmd = "parallel"
                             THEN [par EXCEPT !.batches = Batch(g.chats, inv.batchSize),
                                              !.pass = "first"]
                             ELSE par
  /\ UNCHANGED <<inv, files, workers, sent, now, provider, bat, call, result>>

(***************************************************************************)
(* The parallel command and psy.CompleteChatBatch                          *)
(***************************************************************************)

\* The goroutines CompleteChatBatch starts, one per chat, each with its copy.
Spawn(batch) ==
  [i \in 1..Len(batch) |-> [pc |-> "ready", chat |-> batch[i], start |-> 0]]

\* A wait group that never holds the caller back.
WaitGroupNone == Cardinality({})

\* The sync.WaitGroup counter: goroutines that have not returned.
WaitGroup == Cardinality({i \in 1..Len(workers) : workers[i].pc # "done"})

InFlight == Cardinality({i \in 1..Len(workers) : workers[i].pc = "inflight"})

\* parallel calls CompleteChatBatch on the next batch.
StartBatch ==
  /\ pc = "loop"
  /\ par.bi <= Len(par.batches)
  /\ workers' = Spawn(par.batches[par.bi])
  /\ par' = [par EXCEPT !.channel = <<>>, !.invoked = @ + 1]
  /\ pc' = "wait"
  /\ UNCHANGED <<inv, err, files, commonModels, nextID, calls, chats, answers,
                 sent, now, provider, bat, call, result>>

\* A goroutine reads the clock and calls Client.CompleteChat, which sends the
\* request when it can be marshalled.
WorkerCall(i) ==
  /\ pc = "wait"
  /\ workers[i].pc = "ready"
  /\ workers' = [workers EXCEPT ![i].pc = "inflight", ![i].start = now]
  /\ IF CanMarshal(workers[i].chat.Request)
     THEN /\ sent' = Put(sent, workers[i].chat.ID,
                         Count(sent, workers[i].chat.ID) + 1)
          /\ calls' = [calls EXCEPT !.chat = @ + 1]
     ELSE UNCHANGED <<sent, calls>>
  /\ UNCHANGED <<inv, pc, err, files, commonModels, nextID, chats, answers, par,
                 now, provider, bat, call, result>>

\* A goroutine that works on a chat variable it shares with the others
\* instead of its own copy: what it fills in shows in every goroutine's chat.
WorkerReturnShared(i) ==
  /\ pc = "wait"
  /\ workers[i].pc = "inflight"
  /\ \E reply \in Replies, d \in {0, 1} :
       /\ now + d <= MaxClock
       /\ now' = now + d
       /\ workers' =
            [j \in 1..Len(workers) |->
               [pc |-> IF j = i THEN "send" ELSE workers[j].pc,
                chat |-> [CompleteWorker(workers[i].chat, reply, P.ScoreSelect,
                                         (now + d) - workers[i].start)
                            EXCEPT !.ID = workers[j].chat.ID],
                start |-> workers[j].start]]
  /\ UNCHANGED <<inv, pc, err, files, commonModels, nextID, calls, chats, answers,
                 par, sent, provider, bat, call, result>>

\* The remote call returns; the goroutine fills in its chat.
WorkerReturn(i) ==
  /\ pc = "wait"
  /\ workers[i].pc = "inflight"
  /\ \E reply \in Replies, d \in {0, 1} :
       /\ now + d <= MaxClock
       /\ now' = now + d
       /\ workers' = [workers EXCEPT
            ![i].pc = "send",
            ![i].chat = CompleteWorker(@, reply, P.ScoreSelect,
                                       (now + d) - workers[i].start)]
  /\ UNCHANGED <<inv, pc, err, files, commonModels, nextID, calls, chats, answers,
                 par, sent, provider, bat, call, result>>

\* A goroutine that sends on a channel without a buffer: nobody receives
\* before the wait of the caller ends, so the send never goes through.
WorkerSendUnbuffered(i) ==
  /\ pc = "wait"
  /\ workers[i].pc = "send"
  /\ Len(par.channel) < 0
  /\ par' = [par EXCEPT !.channel = Append(@, workers[i].chat)]
  /\ workers' = [workers EXCEPT ![i].pc = "done", ![i].start = 0]
  /\ UNCHANGED <<inv, pc, err, files, commonModels, nextID, calls, chats, answers,
                 sent, now, provider, bat, call, result>>

\* The goroutine sends its chat on the results channel, whose capacity is
\* len(chats), and returns (the deferred wg.Done).
WorkerSend(i) ==
  /\ pc = "wait"
  /\ workers[i].pc = "send"
  /\ Len(par.channel) < Len(workers)
  /\ par' = [par EXCEPT !.channel = Append(@, workers[i].chat)]
  /\ workers' = [workers EXCEPT ![i].pc = "done", ![i].start = 0]
  /\ UNCHANGED <<inv, pc, err, files, commonModels, nextID, calls, chats, answers,
                 sent, now, provider, bat, call, result>>

RECURSIVE ChannelMap(_, _)
\* The map CompleteChatBatch builds while draining the closed channel.
ChannelMap(channel, batch) ==
  IF channel = <<>> THEN batch
  ELSE ChannelMap(Tail(channel), Put(batch, Head(channel).ID, Head(channel)))

\* wg.Wait returns; CompleteChatBatch closes the channel and returns the map.
CollectBatch ==
  /\ pc = "wait"
  /\ WaitGroup = 0
  /\ par' = [par EXCEPT !.ret = ChannelMap(par.channel, EmptyMap), !.channel = <<>>]
  /\ pc' = "gather"
  /\ UNCHANGED <<inv, err, files, commonModels, nextID, calls, chats, answers,
                 workers, sent, now, provider, bat, call, result>>

\* The orders in which a range over a Go map may visit its keys.
Orders(S) ==
  { f \in [1..Cardinality(S) -> S] :
      \A i, j \in 1..Cardinality(S) : i # j => f[i] # f[j] }

RECURSIVE GatherLoopAll(_, _, _, _)
\* A gather loop that queues every chat of the first pass for the retry.
GatherLoopAll(order, ret, retry, st) ==
  IF order = <<>> THEN st
  ELSE LET chat == ret[Head(order)]
       IN  GatherLoopAll(Tail(order), ret, retry,
                         [count |-> IF retry THEN st.count ELSE st.count + 1,
                          retries |-> IF ~retry THEN Append(st.retries, chat)
                                      ELSE st.retries,
                          results |-> Put(st.results, chat.ID, chat)])

RECURSIVE GatherLoopKeep(_, _, _, _)
\* A gather loop that keeps the first result recorded for a chat.
GatherLoopKeep(order, ret, retry, st) ==
  IF order = <<>> THEN st
  ELSE LET chat == ret[Head(order)]
       IN  GatherLoopKeep(Tail(order), ret, retry,
                          [count |-> IF retry THEN st.count ELSE st.count + 1,
                           retries |-> IF ~retry /\ chat.ErrMsg # <<>>
                                       THEN Append(st.retries, chat) ELSE st.retries,
                           results |-> IF chat.ID \in DOMAIN st.results
                                       THEN st.results
                                       ELSE Put(st.results, chat.ID, chat)])

RECURSIVE GatherLoop(_, _, _, _)
\* The range over the returned map in parallel: count, retries and results.
GatherLoop(order, ret, retry, st) ==
  IF order = <<>> THEN st
  ELSE LET chat == ret[Head(order)]
       IN  GatherLoop(Tail(order), ret, retry,
                      [count |-> IF retry THEN st.count ELSE st.count + 1,
                       retries |-> IF ~retry /\ chat.ErrMsg # <<>>
                                   THEN Append(st.retries, chat) ELSE st.retries,
                       results |-> Put(st.results, chat.ID, chat)])

\* parallel gathers the results of a batch of the first pass.
GatherBatch ==
  /\ pc = "gather"
  /\ par.pass = "first"
  /\ \E order \in Orders(DOMAIN par.ret) :
       LET st == GatherLoop(order, par.ret, FALSE,
                            [count |-> par.count, retries |-> par.retries,
                             results |-> par.results])
       IN  /\ par' = [par EXCEPT !.count = st.count, !.retries = st.retries,
                                 !.results = st.results, !.bi = @ + 1]
           /\ pc' = IF par.bi + 1 <= Len(par.batches) THEN "loop"
                    ELSE IF Len(st.retries) > 0 THEN "retry" ELSE "merge"
  /\ UNCHANGED <<inv, err, files, commonModels, nextID, calls, chats, answers,
                 workers, sent, now, provider, bat, call, result>>

\* parallel calls CompleteChatBatch once more, on the failed chats.
StartRetry ==
  /\ pc = "retry"
  /\ workers' = Spawn(par.retries)
  /\ par' = [par EXCEPT !.pass = "retry", !.channel = <<>>, !.invoked = @ + 1]
  /\ pc' = "wait"
  /\ UNCHANGED <<inv, err, files, commonModels, nextID, calls, chats, answers,
                 sent, now, provider, bat, call, result>>

\* parallel gathers the results of the retry pass.
GatherRetry ==
  /\ pc = "gather"
  /\ par.pass = "retry"
  /\ \E order \in Orders(DOMAIN par.ret) :
       LET st == GatherLoop(order, par.ret, TRUE,
                            [count |-> par.count, retries |-> par.retries,
                             results |-> par.results])
       IN  par' = [par EXCEPT !.results = st.results]
  /\ pc' = "merge"
  /\ UNCHANGED <<inv, err, files, commonModels, nextID, calls, chats, answers,
                 workers, sent, now, provider, bat, call, result>>

\* parallel merges the results into the table and writes the output file.
MergeAndWrite ==
  /\ pc = "merge"
  /\ answers' = ParallelMerge(answers, par.results, P.ScoreField)
  /\ \E w \in {WriteCSV(FileAt(files, inv.outputPath), answers')} :
       /\ files' = WriteFile(files, inv.outputPath, w.file)
       /\ err' = IF w.err THEN "write csv file" ELSE ""
  /\ pc' = "done"
  /\ UNCHANGED <<inv, commonModels, nextID, calls, chats, par, workers, sent,
                 now, provider, bat, call, result>>

\* generateChatResponse on the one chat of random or prompt.  With --raw the
\* request is marshalled for printing, which may fail; the reply is printed
\* as it came and nothing of it is kept; the error returned is that of
\* Client.CompleteChatRaw.  Without it psy.CompleteChat fills in the chat, d
\* milliseconds after it read the clock.  A request that cannot be marshalled
\* is not sent.
RandomComplete ==
  /\ pc = "complete"
  /\ \E reply \in Replies, d \in {0, 1} :
       /\ now + d <= MaxClock
       /\ now' = now + d
       /\ IF inv.c.raw
          THEN /\ chats' = chats
               /\ err' = IF ~CanMarshal(chats[1].Request)
                         THEN "error marshalling JSON request"
                         ELSE IF CompleteChatRaw(chats[1].Request, reply) # <<>>
                         THEN "complete chat"
                         ELSE ""
          ELSE /\ chats' = <<CompleteWorker(chats[1], reply, P.ScoreSelect, d)>>
               /\ err' = IF CompleteChat(chats[1].Request, reply).err # <<>>
                         THEN "chat completion"
                         ELSE ""
  /\ IF CanMarshal(chats[1].Request)
     THEN /\ sent' = Put(sent, chats[1].ID, Count(sent, chats[1].ID) + 1)
          /\ calls' = [calls EXCEPT !.chat = @ + 1]
     ELSE UNCHANGED <<sent, calls>>
  /\ pc' = "done"
  /\ UNCHANGED <<inv, files, commonModels, nextID, answers, par, workers,
                 provider, bat, call, result>>

ParallelNext ==
  \/ GenerateRequests
  \/ StartBatch
  \/ \E i \in 1..Len(workers) : WorkerCall(i)
  \/ \E i \in 1..Len(workers) : WorkerReturn(i)
  \/ \E i \in 1..Len(workers) : WorkerSend(i)
  \/ CollectBatch
  \/ GatherBatch
  \/ StartRetry
  \/ GatherRetry
  \/ MergeAndWrite

(***************************************************************************)
(* The batch command: submission, polling and reconciliation               *)
(***************************************************************************)

\* A metadata map that carries the file paths but not the score field.
MetadataNoScoreField(p) ==
  [input_file |-> p.InputFile, output_file |-> p.OutputFile,
   system_file |-> p.SystemFile, prompt_file |-> p.PromptFile,
   question_file |-> p.QuestionFile, question_field |-> p.QuestionField,
   question_id |-> p.QuestionID, answer_file |-> p.AnswerFile,
   answer_field |-> p.AnswerField, answer_id |-> p.AnswerID,
   score_field |-> <<>>,
   score_select |-> IF IsValid(p.ScoreSelect) THEN p.ScoreSelect ELSE <<>>,
   model |-> p.Model, temperature |-> <<>>, max_tokens |-> <<>>]

\* ChatParameters.Metadata.  A key the map lacks reads as the empty string.
Metadata(p) ==
  [input_file |-> p.InputFile, output_file |-> p.OutputFile,
   system_file |-> p.SystemFile, prompt_file |-> p.PromptFile,
   question_file |-> p.QuestionFile, question_field |-> p.QuestionField,
   question_id |-> p.QuestionID, answer_file |-> p.AnswerFile,
   answer_field |-> p.AnswerField, answer_id |-> p.AnswerID,
   score_field |-> p.ScoreField,
   score_select |-> IF IsValid(p.ScoreSelect) THEN p.ScoreSelect ELSE <<>>,
   model |-> p.Model,
   temperature |-> IF Positive(p.Temperature) THEN FormatF(p.Temperature) ELSE <<>>,
   max_tokens |-> IF p.MaxTokens > 0 THEN Itoa(p.MaxTokens) ELSE <<>>]

\* A test that takes every status past validation for a final one.
IsDoneEarly(status) == status # "validating"

\* Batch.IsDone
IsDone(status) == status \in {"completed", "failed", "expired", "cancelled"}

\* The lines of the batch input file, one openai.BatchRequestItem per chat,
\* and whether json.Marshal failed on one of them.
BatchRequestItems(cs) ==
  [err |-> \E i \in 1..Len(cs) : ~CanMarshal(cs[i].Request),
   items |-> [i \in 1..Len(cs) |->
                [CustomID |-> cs[i].ID, Method |-> "POST",
                 URL |-> "/v1/chat/completions", Body |-> cs[i].Request]]]

\* batchCreate with --input-only: the input file is saved, nothing is sent.
\* An item that cannot be marshalled ends the command before the file is
\* written.
WriteInputOnly ==
  /\ pc = "upload"
  /\ inv.inputOnly
  /\ IF BatchRequestItems(chats).err
     THEN /\ files' = files
          /\ err' = "marshal chat batch request item"
     ELSE \E w \in {WriteInput(FileAt(files, P.InputFile),
                                BatchRequestItems(chats).items)} :
            /\ files' = WriteFile(files, P.InputFile, w.file)
            /\ err' = IF w.err THEN "save batch input file" ELSE ""
  /\ pc' = "done"
  /\ UNCHANGED <<inv, commonModels, nextID, calls, chats, answers, par,
                 workers, sent, now, provider, bat, call, result>>

\* Client.UploadFile of the input data; the request may fail.  An item that
\* cannot be marshalled ends the command before the request is made.
UploadFile ==
  /\ pc = "upload"
  /\ ~inv.inputOnly
  /\ IF BatchRequestItems(chats).err
     THEN /\ calls' = calls
          /\ bat' = bat
          /\ pc' = "done"
          /\ err' = "marshal chat batch request item"
     ELSE /\ calls' = [calls EXCEPT !.upload = @ + 1]
          /\ \E ok \in BOOLEAN :
               IF ok
               THEN /\ bat' = [bat EXCEPT !.uploaded = BatchRequestItems(chats).items]
                    /\ pc' = "create"
                    /\ err' = err
               ELSE /\ bat' = bat
                    /\ pc' = "done"
                    /\ err' = "upload batch input file"
  /\ UNCHANGED <<inv, files, commonModels, nextID, chats, answers, par, workers,
                 sent, now, provider, call, result>>

\* Client.CreateBatch: the provider creates the job in status validating.
CreateBatch ==
  /\ pc = "create"
  /\ calls' = [calls EXCEPT !.createBatch = @ + 1]
  /\ \E ok \in BOOLEAN :
       IF ok
       THEN /\ provider' = [exists |-> TRUE, Status |-> "validating",
                            Metadata |-> Metadata(P), input |-> bat.uploaded,
                            files |-> FALSE, items |-> EmptyMap]
            /\ pc' = "save"
            /\ err' = err
       ELSE /\ provider' = provider
            /\ pc' = "done"
            /\ err' = "create batch"
  /\ UNCHANGED <<inv, files, commonModels, nextID, chats, answers, par, workers,
                 sent, now, bat, call, result>>

\* answers.WriteCSV(outputPath): the incomplete results file with chat ids.
SaveIncomplete ==
  /\ pc = "save"
  /\ \E w \in {WriteCSV(FileAt(files, inv.outputPath), answers)} :
       /\ files' = WriteFile(files, inv.outputPath, w.file)
       /\ err' = IF w.err THEN "save incomplete results file" ELSE ""
       /\ pc' = IF ~w.err /\ inv.wait > 0 THEN "poll" ELSE "done"
  /\ UNCHANGED <<inv, commonModels, nextID, calls, chats, answers, par,
                 workers, sent, now, provider, bat, call, result>>

\* Client.ReadBatch in the polling loop, followed by the IsDone test.
ReadBatch ==
  /\ pc = "poll"
  /\ calls' = [calls EXCEPT !.readBatch = Min2(@ + 1, MaxReads)]
  /\ \E ok \in BOOLEAN :
       IF ok
       THEN /\ bat' = [bat EXCEPT !.Status = provider.Status]
            /\ pc' = IF IsDone(provider.Status) THEN "process" ELSE "sleep"
            /\ err' = err
       ELSE /\ bat' = bat
            /\ pc' = "done"
            /\ err' = "read batch"
  /\ UNCHANGED <<inv, files, commonModels, nextID, chats, answers, par, workers,
                 sent, now, provider, call, result>>

\* time.Sleep(wait) between two reads.
Sleep ==
  /\ pc = "sleep"
  /\ pc' = "poll"
  /\ UNCHANGED <<inv, err, files, commonModels, nextID, calls, chats, answers,
                 par, workers, sent, now, provider, bat, call, result>>

\* openai.BatchError: HasError and Error.
BatchHasError(e) ==
  Len(e.Code) > 0 \/ Len(e.Message) > 0 \/ Len(e.Param) > 0 \/ e.Line > 0

BatchErrorText(e) ==
  <<"e", "r", "r", "o", "r", " ">> \o e.Code
  \o (IF Len(e.Param) > 0 THEN <<" ", "p", "a", "r", "a", "m", " ">> \o e.Param
      ELSE <<>>)
  \o (IF e.Line > 0 THEN <<" ", "l", "i", "n", "e", " ">> \o Itoa(e.Line) ELSE <<>>)
  \o <<":", " ">> \o e.Message

NoBatchError == [Code |-> <<>>, Message |-> <<>>, Param |-> <<>>, Line |-> 0]

\* BatchResponseItem.Completion: the first choice's content, or nothing.
BatchCompletion(item) ==
  IF Len(item.Choices) > 0 THEN item.Choices[1] ELSE <<>>

RECURSIVE BatchMergeLoopAbsent(_, _, _, _, _, _)
\* A record loop that takes a row whose chat id has no item for a request that
\* ran out of time, and records that error as the row's completion.
BatchMergeLoopAbsent(records, k, responses, scoreField, scoreSelect, maxScoreCount) ==
  IF k > Len(records)
  THEN [records |-> records, maxScoreCount |-> maxScoreCount]
  ELSE LET record == records[k]
           chatID == Get(record, S_chatID)
           response == IF chatID \in DOMAIN responses THEN responses[chatID]
                       ELSE [Error |-> [NoBatchError EXCEPT !.Code = <<"x">>],
                             Choices |-> <<>>]
           completion == IF BatchHasError(response.Error)
                         THEN BatchErrorText(response.Error)
                         ELSE BatchCompletion(response)
           scores == IF BatchHasError(response.Error) THEN <<>>
                     ELSE SelectScores(completion, scoreSelect)
           m == Max2(maxScoreCount, Len(scores))
           r2 == PutScores(Put(record, S_completion, completion), scores,
                           1, scoreField, m)
       IN  BatchMergeLoopAbsent([records EXCEPT ![k] = r2], k + 1, responses,
                                scoreField, scoreSelect, m)

RECURSIVE BatchMergeLoop(_, _, _, _, _, _)
\* The record loop of processBatchResults.
BatchMergeLoop(records, k, responses, scoreField, scoreSelect, maxScoreCount) ==
  IF k > Len(records)
  THEN [records |-> records, maxScoreCount |-> maxScoreCount]
  ELSE LET record == records[k]
           chatID == Get(record, S_chatID)
       IN  IF chatID = <<>> \/ chatID \notin DOMAIN responses
           THEN BatchMergeLoop(records, k + 1, responses, scoreField, scoreSelect,
                               maxScoreCount)
           ELSE LET Stored(completion, scores, m) ==
                      BatchMergeLoop(
                        [records EXCEPT ![k] =
                           PutScores(Put(record, S_completion, completion),
                                     scores, 1, scoreField, m)],
                        k + 1, responses, scoreField, scoreSelect, m)
                    Scored(completion, scores) ==
                      Stored(completion, scores,
                             Max2(maxScoreCount, Len(scores)))
                    Completed(failed, completion) ==
                      Scored(completion,
                             IF failed THEN <<>>
                             ELSE SelectScores(completion, scoreSelect))
                    Response(response) ==
                      Completed(BatchHasError(response.Error),
                                IF BatchHasError(response.Error)
                                THEN BatchErrorText(response.Error)
                                ELSE BatchCompletion(response))
                IN  Response(responses[chatID])

\* Client.ReadBatchResponses: the job and the items of its output and error
\* files by custom id; a job that exposes neither file is an error.
ReadBatchResponses(job, ok) ==
  IF ~ok \/ ~job.exists \/ ~job.files
  THEN [err |-> TRUE, batch |-> job, responses |-> EmptyMap]
  ELSE [err |-> FALSE, batch |-> job, responses |-> job.items]

\* processBatchResults: the error it returns, the disk it leaves and the
\* output path, score field and score selection it worked with.
ProcessBatchResults(fs, job, ok) ==
  LET Result(e, disk, path, field, select) ==
        [err |-> e, files |-> disk, outputPath |-> path, scoreField |-> field,
         scoreSelect |-> select]
      Saved(outputPath, scoreField, scoreSelect, w) ==
        Result(IF w.err THEN "write csv file" ELSE "",
               WriteFile(fs, outputPath, w.file), outputPath,
               scoreField, scoreSelect)
      Merged(outputPath, scoreField, scoreSelect, t, m) ==
        Saved(outputPath, scoreField, scoreSelect,
                WriteCSV(FileAt(fs, outputPath),
                         AddResultFields([t.table EXCEPT !.Records = m.records],
                                         scoreField, m.maxScoreCount)))
      Table(r, outputPath, scoreField, scoreSelect, t) ==
        IF t.err
        THEN Result("read incomplete results file", fs, outputPath, <<>>, <<>>)
        ELSE Merged(outputPath, scoreField, scoreSelect, t,
                    BatchMergeLoop(t.table.Records, 1, r.responses, scoreField,
                                   scoreSelect, 0))
      Output(r, meta) ==
        IF meta.output_file = <<>>
        THEN Result("output_file not found", fs, <<>>, <<>>, <<>>)
        ELSE Table(r, meta.output_file,
                   IF meta.score_field = <<>> THEN S_score ELSE meta.score_field,
                   IF meta.score_select = <<>> THEN Last ELSE meta.score_select,
                   ReadCSVTable(FileAt(fs, meta.output_file)))
      Responses(r) ==
        IF r.err THEN Result("read batch responses", fs, <<>>, <<>>, <<>>)
        ELSE Output(r, r.batch.Metadata)
  IN  Responses(ReadBatchResponses(job, ok))

\* A call of processBatchResults on the provider's job.
ProcessJob ==
  /\ calls' = [calls EXCEPT !.readResponses = @ + 1]
  /\ \E ok \in BOOLEAN :
       \E r \in {ProcessBatchResults(files, provider, ok)} :
           /\ files' = r.files
           /\ err' = r.err
           /\ bat' = [bat EXCEPT !.reconciled = @ + 1,
                                 !.outputPath = r.outputPath,
                                 !.scoreField = r.scoreField,
                                 !.scoreSelect = r.scoreSelect]
  /\ pc' = "done"
  /\ UNCHANGED <<inv, commonModels, nextID, chats, answers, par, workers, sent,
                 now, provider, call, result>>

\* batchCreate calls processBatchResults after the polling loop.
Reconcile ==
  /\ pc = "process"
  /\ ProcessJob

\* A later "chat results" invocation (batchResults), given the id of the job
\* a batch command submitted without waiting.  It has none of that command's
\* flags, arguments or locals: it works from the job and the disk.
BatchResults ==
  /\ inv.cmd = "batch" /\ inv.wait = 0
  /\ pc = "done" /\ err = ""
  /\ provider.exists
  /\ bat.reconciled = 0
  /\ ProcessJob

\* "chat results" given the id of a job that was reconciled before: the
\* command can be run any number of times; the model runs it once more.
BatchResultsAgain ==
  /\ inv.cmd = "batch"
  /\ pc = "done" /\ err = ""
  /\ provider.exists
  /\ bat.reconciled = 1
  /\ ProcessJob

\* The items the provider may return for one request of a batch.
BatchItems ==
  { [Error |-> NoBatchError, Choices |-> << <<"7">> >>],
    [Error |-> NoBatchError, Choices |-> << <<"3", "\n", "1", "e", "1">> >>],
    [Error |-> NoBatchError, Choices |-> <<>>],
    [Error |-> [Code |-> <<"c">>, Message |-> <<"m">>, Param |-> <<>>, Line |-> 0],
     Choices |-> <<>>] }

ExpiredItem ==
  [Error |-> [Code |-> <<"x">>, Message |-> <<"m">>, Param |-> <<>>, Line |-> 0],
   Choices |-> <<>>]

\* The job statuses that may follow a status.
NextStatus(status) ==
  CASE status = "validating" -> {"in_progress", "cancelling"}
    [] status = "in_progress" -> {"finalizing", "cancelling"}
    [] status = "finalizing" -> {"completed", "failed", "expired"}
    [] status = "cancelling" -> {"cancelled"}
    [] OTHER -> {}

\* The custom ids of the requests of the job.
CustomIDs(job) == { job.input[i].CustomID : i \in 1..Len(job.input) }

\* The response maps a job may expose on reaching a terminal status: one item
\* per request when completed, an error item for the requests that ran out of
\* time when expired, none when failed or cancelled.
ResponseMaps(job, status) ==
  CASE status = "completed" -> [CustomIDs(job) -> BatchItems]
    [] status = "expired" ->
         UNION { [ids -> {ExpiredItem}] : ids \in SUBSET CustomIDs(job) }
    [] OTHER -> { EmptyMap }

\* The provider moves the job to its next status.
ProviderAdvance ==
  /\ provider.exists
  /\ \E status \in NextStatus(provider.Status) :
       \E items \in ResponseMaps(provider, status) :
         provider' = [provider EXCEPT
           !.Status = status,
           !.items = items,
           !.files = (status = "completed" \/ DOMAIN items # {})]
  /\ UNCHANGED <<inv, pc, err, files, commonModels, nextID, calls, chats, answers,
                 par, workers, sent, now, bat, call, result>>

BatchNext ==
  \/ GenerateRequests
  \/ WriteInputOnly
  \/ UploadFile
  \/ CreateBatch
  \/ SaveIncomplete
  \/ ReadBatch
  \/ Sleep
  \/ Reconcile
  \/ ProviderAdvance

RandomNext == GenerateRequests \/ RandomComplete

(***************************************************************************)
(* The prompt command: one chat built from a prompt file and an optional   *)
(* system file                                                             *)
(***************************************************************************)

\* The disk of a prompt command: a system file and a prompt file with the
\* given texts, and a path that names no file.
PromptDisk(system, prompt) ==
  (F_missing :> NoFile)
    @@ [Disk(<<>>) EXCEPT ![F_system] = TextFile(system),
                          ![F_prompt] = TextFile(prompt)]

\* gpt chat prompt <promptFile> [systemFile] with the model and score-select
\* flags; systemPath is empty when the second argument is left out.
PromptInvocations ==
  { Invocation("prompt", [Flags(m, sel, <<>>, <<>>, <<>>, <<>>) EXCEPT !.raw = raw],
               [file |-> <<>>, id |-> <<>>, field |-> <<>>], <<>>, 0, 0, FALSE)
      @@ [promptPath |-> pp, systemPath |-> sp] :
      m \in {"gpt-4", "gpt-4o", "gpt-x", "latest", ""},
      sel \in {Last, S_ALL, S_First, S_FIRST, S_best},
      raw \in BOOLEAN,
      pp \in {F_prompt, F_missing},
      sp \in {<<>>, F_system, F_missing} }
  \cup
  { Invocation("prompt",
               [Flags("gpt-4o", Last, <<>>, <<>>, <<>>, <<>>)
                  EXCEPT !.raw = raw, !.temperature = t],
               [file |-> <<>>, id |-> <<>>, field |-> <<>>], <<>>, 0, 0, FALSE)
      @@ [promptPath |-> F_prompt, systemPath |-> F_system] :
      raw \in BOOLEAN, t \in {NaN32, Inf32(0)} }

\* The states in which the prompt command starts.
InitPrompt ==
  /\ inv \in PromptInvocations
  /\ pc = "prompt"
  /\ err = ""
  /\ \E system \in {<<>>, <<"S">>}, prompt \in {<<>>, <<"P">>} :
       files = PromptDisk(system, prompt)
  /\ commonModels = CommonModels
  /\ nextID = 1
  /\ calls = [readModel |-> 0, chat |-> 0, upload |-> 0, createBatch |-> 0,
              readBatch |-> 0, readResponses |-> 0]
  /\ chats = <<>>
  /\ answers = EmptyTable
  /\ par = ParInit
  /\ workers = <<>>
  /\ sent = EmptyMap
  /\ now = 0
  /\ provider = NoBatch
  /\ bat = BatInit
  /\ call = NoCall
  /\ result = NoResult

\* ChatCommand.prompt up to its call of generateChatResponse: the score
\* selection and the model are validated, the two files are read, and the
\* chat is built by psy.NewChat(chatID, prompt, system, ...).
Prompt ==
  /\ pc = "prompt"
  /\ \E model \in ReadModel(inv.c.model),
        system \in {ReadTextFile(files, inv.systemPath)},
        prompt \in {ReadTextFile(files, inv.promptPath)} :
     \E vm \in {ValidModel(commonModels, model, inv.c.model)} :
       IF ~IsValid(ToLower(inv.c.scoreSelect))
       THEN /\ err' = "score selection"
            /\ pc' = "done"
            /\ UNCHANGED <<commonModels, calls, nextID, chats>>
       ELSE /\ commonModels' = vm.common
            /\ calls' = [calls EXCEPT !.readModel = @ + IF vm.called THEN 1 ELSE 0]
            /\ IF ~vm.valid \/ system.err \/ prompt.err
               THEN /\ err' = IF ~vm.valid THEN "model"
                              ELSE IF system.err THEN "system file"
                              ELSE "prompt file"
                    /\ pc' = "done"
                    /\ UNCHANGED <<nextID, chats>>
               ELSE /\ chats' = <<NewChat(NewID(nextID), prompt.text, system.text,
                                          inv.c.model, inv.c.temperature,
                                          inv.c.maxTokens)>>
                    /\ nextID' = nextID + 1
                    /\ err' = ""
                    /\ pc' = "complete"
  /\ UNCHANGED <<inv, files, answers, par, workers, sent, now, provider, bat,
                 call, result>>

\* prompt, then generateChatResponse on its chat.
PromptNext == Prompt \/ RandomComplete


(***************************************************************************)
(* Library functions called on their own: tables (psy.Table), Batch.IsDone *)
(* and psy.SelectScores                                                    *)
(***************************************************************************)

MaxCalls == 2    \* calls that change a table after it was read

S_x == <<"x">>
S_column2 == <<"c", "o", "l", "u", "m", "n", "2">>

\* A cell that alone fills the buffer of the CSV writer.
LongCell == [i \in 1..BufferSize |-> "x"]

\* CSV files for ReadCSVTable: a header of one or two cells (a name, a blank,
\* a name with a space to trim, a name of the form columnN) and up to two
\* rows of one to three fields, and a file with a long cell.
TableFiles ==
  { CsvFile(<< <<S_a>>, <<LongCell>> >>) } \cup
  { CsvFile(<<h>> \o rows) :
      h \in SeqsUpTo({S_a, <<>>, <<"\t", "a", " ">>, S_column2}, 2),
      rows \in {<<>>} \cup
               SeqsUpTo({ << <<>> >>, <<S_x>>, <<S_x, <<>>>>, <<<<>>, S_x>>,
                          <<S_x, S_x, S_x>> }, 2) }

\* The names AddField, Record and the row assignments are called with.
TableNames == {S_a, S_score, S_column2, <<" ", "b">>, <<>>}

\* The cast of a command made for the library calls: none runs.
NoInvocation ==
  Invocation("none", Flags("", <<>>, <<>>, <<>>, <<>>, <<>>),
             [file |-> <<>>, id |-> <<>>, field |-> <<>>], <<>>, 0, 0, FALSE)

InitLibraryWith(fs, c, at) ==
  /\ inv = NoInvocation
  /\ pc = at
  /\ err = ""
  /\ files = fs
  /\ commonModels = CommonModels
  /\ nextID = 1
  /\ calls = [readModel |-> 0, chat |-> 0, upload |-> 0, createBatch |-> 0,
              readBatch |-> 0, readResponses |-> 0]
  /\ chats = <<>>
  /\ answers = EmptyTable
  /\ par = ParInit
  /\ workers = <<>>
  /\ sent = EmptyMap
  /\ now = 0
  /\ provider = NoBatch
  /\ bat = BatInit
  /\ call = c
  /\ result = NoResult

\* The calls made so far that changed the table.
CallsMade == IF call.fn \in {"AddField", "set"} THEN call.n ELSE 0

\* A program about to read a CSV file into a table.
InitTable ==
  \E f \in TableFiles, k \in Faults :
    /\ k # "none" => Len(f.csv[1]) = 1 /\ Len(f.csv) <= 2
    /\ InitLibraryWith([Disk(<<>>) EXCEPT ![F_out] = Faulty(f, k)], NoCall, "table")

\* ReadCSVTable("out.csv")
TableRead ==
  /\ pc = "table"
  /\ \E r \in {ReadCSVTable(FileAt(files, F_out))} :
       /\ answers' = r.table
       /\ err' = IF r.err THEN "read csv" ELSE ""
       /\ pc' = IF r.err THEN "done" ELSE "loaded"
  /\ call' = [fn |-> "ReadCSVTable"]
  /\ UNCHANGED <<inv, files, commonModels, nextID, calls, chats, par, workers,
                 sent, now, provider, bat, result>>

\* Table.AddField(name); the call keeps the table it was made on.
TableAddField ==
  /\ pc = "loaded"
  /\ CallsMade < MaxCalls
  /\ \E name \in TableNames :
       /\ call' = [fn |-> "AddField", name |-> name, table |-> answers,
                   n |-> CallsMade + 1]
       /\ answers' = AddField(answers, name)
  /\ UNCHANGED <<inv, pc, err, files, commonModels, nextID, calls, chats, par,
                 workers, sent, now, provider, bat, result>>

\* record[name] = value on a row of the table, for a column of the table.
TableSet ==
  /\ pc = "loaded"
  /\ CallsMade < MaxCalls
  /\ \E k \in 1..Len(answers.Records), name \in SeqToSet(answers.FieldNames),
        value \in {<<>>, S_x} :
       /\ call' = [fn |-> "set", name |-> name, table |-> answers,
                   n |-> CallsMade + 1]
       /\ answers' = [answers EXCEPT !.Records[k] = Put(@, name, value)]
  /\ UNCHANGED <<inv, pc, err, files, commonModels, nextID, calls, chats, par,
                 workers, sent, now, provider, bat, result>>

\* Table.Record(name, value): the index of the record returned, 0 for nil.
TableRecord ==
  /\ pc = "loaded"
  /\ \E name \in TableNames, value \in {<<>>, S_x, S_a} :
       /\ call' = [fn |-> "Record", name |-> name, value |-> value,
                   table |-> answers]
       /\ result' = [done |-> TRUE, value |-> RecordIndex(answers, name, value)]
  /\ pc' = "done"
  /\ UNCHANGED <<inv, err, files, commonModels, nextID, calls, chats, answers,
                 par, workers, sent, now, provider, bat>>

\* Table.WriteCSV("out.csv")
TableWrite ==
  /\ pc = "loaded"
  /\ \E w \in {WriteCSV(FileAt(files, F_out), answers)} :
       /\ files' = WriteFile(files, F_out, w.file)
       /\ err' = IF w.err THEN "write csv file" ELSE ""
       /\ pc' = IF w.err THEN "done" ELSE "written"
  /\ call' = [fn |-> "WriteCSV"]
  /\ result' = NoResult
  /\ UNCHANGED <<inv, commonModels, nextID, calls, chats, answers, par,
                 workers, sent, now, provider, bat>>

\* ReadCSVTable("out.csv") of the file WriteCSV wrote.
TableReadBack ==
  /\ pc = "written"
  /\ call' = [fn |-> "ReadCSVTable"]
  /\ result' = [done |-> TRUE, value |-> ReadCSVTable(FileAt(files, F_out))]
  /\ pc' = "done"
  /\ UNCHANGED <<inv, err, files, commonModels, nextID, calls, chats, answers, par,
                 workers, sent, now, provider, bat>>

MaxWords == 3    \* words of the text given to SelectScores

\* The statuses Batch.IsDone is called with: those of the provider, the empty
\* string and strings that are no status.
Statuses ==
  {"validating", "in_progress", "finalizing", "completed", "failed", "expired",
   "cancelling", "cancelled", "", "done", "Completed", "canceled"}

\* The texts and selections SelectScores is called with.
ScoreTexts ==
  {<<>>} \cup
  { Join(words, <<" ">>) :
      words \in SeqsUpTo({<<"1">>, <<"7", ".">>, <<"+", "2", ".", "5">>,
                          <<"-", "3">>, <<"x">>, <<"-">>, <<>>}, MaxWords) }
  \cup
  { Join(words, sep) :
      words \in SeqsUpTo({<<"1">>, <<"1", "e", "2">>, <<"x">>}, 2),
      sep \in {<<"\t">>, <<"\r", "\n">>, <<"U+00A0">>, <<"_">>} }

Selections == {First, Last, All, None, S_best, <<>>}

MaxItems == 4    \* items of a slice given to psy.Batch

\* The slices psy.Batch is called with: every sequence of up to MaxItems
\* items, equal items included.
BatchInputs == SeqsUpTo({"x", "y"}, MaxItems)

\* The tokens ParseScore is called with: numbers with and without a sign, a
\* fraction, a unit suffix and trailing punctuation, and tokens that are no
\* number.
ScoreTokens ==
  { sign \o number \o unit \o mark :
      sign \in {<<>>, <<"+">>, <<"-">>},
      number \in {<<>>, <<"7">>, <<"7", ".">>, <<"7", ".", "5">>, <<".", "5">>,
                  <<"1", "0">>, <<"7", ".", "5", ".", "2">>,
                  <<"1", "0", "0", ".", "0", "1">>,
                  <<"0", ".", "1", "2", "3", "4", "5", "6", "7">>,
                  <<"2", "1", "4", "7", "4", "8", "3", "6", "4", "8">>,
                  <<"1", "e", "5">>, <<"1", "E", "-", "2">>, <<"1", "e", "4", "0">>,
                  <<"0", "x", "1", "p", "4">>, <<"1", "_", "0">>},
      unit \in {<<>>, <<"k", "g">>, <<"%">>},
      mark \in {<<>>, <<",">>, <<".">>, <<"!", ")">>} }
  \cup { <<"k", "g">>, <<"(", "7", ")">>, <<"7", "k", "5">>, <<"i", "n", "f">>,
         <<"N", "a", "N">>, <<"I", "n", "f", "i", "n", "i", "t", "y", "1">> }

\* A program about to call Batch.IsDone, SelectScores, psy.Batch or ParseScore.
InitCalls ==
  \E c \in { [fn |-> "IsDone", status |-> s] : s \in Statuses }
           \cup { [fn |-> "SelectScores", text |-> t, sel |-> sel] :
                    t \in ScoreTexts, sel \in Selections }
           \cup { [fn |-> "Batch", items |-> items, batchSize |-> b] :
                    items \in BatchInputs, b \in 0..(MaxBatchSize + 1) }
           \cup { [fn |-> "ParseScore", s |-> s] : s \in ScoreTokens } :
    InitLibraryWith(Disk(<<>>), c, "library")

\* psy.Batch on a slice and a batch size.
CallBatch ==
  /\ pc = "library" /\ call.fn = "Batch"
  /\ result' = [done |-> TRUE, value |-> Batch(call.items, call.batchSize)]
  /\ pc' = "done"
  /\ UNCHANGED <<inv, err, files, commonModels, nextID, calls, chats, answers, par,
                 workers, sent, now, provider, bat, call>>

\* psy.ParseScore on a token.
CallParseScore ==
  /\ pc = "library" /\ call.fn = "ParseScore"
  /\ result' = [done |-> TRUE, value |-> ParseScore(call.s)]
  /\ pc' = "done"
  /\ UNCHANGED <<inv, err, files, commonModels, nextID, calls, chats, answers, par,
                 workers, sent, now, provider, bat, call>>

\* Batch.IsDone on a batch of the status.
CallIsDone ==
  /\ pc = "library" /\ call.fn = "IsDone"
  /\ result' = [done |-> TRUE, value |-> IsDone(call.status)]
  /\ pc' = "done"
  /\ UNCHANGED <<inv, err, files, commonModels, nextID, calls, chats, answers, par,
                 workers, sent, now, provider, bat, call>>

\* psy.SelectScores(text, sel)
CallSelectScores ==
  /\ pc = "library" /\ call.fn = "SelectScores"
  /\ result' = [done |-> TRUE, value |-> SelectScores(call.text, call.sel)]
  /\ pc' = "done"
  /\ UNCHANGED <<inv, err, files, commonModels, nextID, calls, chats, answers, par,
                 workers, sent, now, provider, bat, call>>

InitLibrary == InitTable \/ InitCalls

LibraryNext ==
  \/ TableRead
  \/ TableAddField
  \/ TableSet
  \/ TableRecord
  \/ TableWrite
  \/ TableReadBack
  \/ CallIsDone
  \/ CallSelectScores
  \/ CallBatch
  \/ CallParseScore

(***************************************************************************)
(* The random command on question texts and answers that hold markers      *)
(***************************************************************************)

\* Texts of a question or of an answer: plain, a marker alone, a marker
\* within other text.
MarkedTexts ==
  { <<"o", "k">>, S_questionMarker, S_answerMarker,
    <<"a">> \o S_answerMarker \o <<"b">>,
    <<"a">> \o S_questionMarker \o <<"b">> }

\* The random command on an answer file of one row, with the question looked
\* up by the row's key or fixed by name=value.
MarkerInvocations ==
  { Invocation("random", Flags("gpt-4o", Last, <<>>, <<>>, S_a, S_random), q,
               << << <<"1">>, a >> >>, 0, 0, FALSE) :
      q \in { [file |-> F_questions, id |-> S_q, field |-> S_t],
              [file |-> F_questions, id |-> <<"q", "=", "1">>, field |-> S_t] },
      a \in MarkedTexts }

\* The states in which that command starts: the question file holds one
\* question, of key 1, with one of the texts.
InitMarkers ==
  /\ inv \in MarkerInvocations
  /\ pc = "start"
  /\ err = ""
  /\ \E t \in MarkedTexts :
       files = [Disk(inv.rows) EXCEPT
                  ![F_questions] = CsvFile(<< <<S_q, S_t>>, << <<"1">>, t >> >>)]
  /\ commonModels = CommonModels
  /\ nextID = 1
  /\ calls = [readModel |-> 0, chat |-> 0, upload |-> 0, createBatch |-> 0,
              readBatch |-> 0, readResponses |-> 0]
  /\ chats = <<>>
  /\ answers = EmptyTable
  /\ par = ParInit
  /\ workers = <<>>
  /\ sent = EmptyMap
  /\ now = 0
  /\ provider = NoBatch
  /\ bat = BatInit
  /\ call = NoCall
  /\ result = NoResult

SpecMarkers == InitMarkers /\ [][RandomNext]_vars


(***************************************************************************)
(* psy.CompleteChatBatch called on its own, on K chats                     *)
(***************************************************************************)

\* The chats of a call: K new chats with distinct ids.
ExecutorChats(K) ==
  [i \in 1..K |-> NewChat(NewID(i), <<"S">>, <<"P">>, "gpt-4o", F32(0, 126, 0), 0)]

\* A program about to call CompleteChatBatch with a score selection.
InitExecutor ==
  /\ \E sel \in {Last, All} :
       inv = Invocation("none", Flags("gpt-4o", sel, <<>>, <<>>, <<>>, <<>>),
                        [file |-> <<>>, id |-> <<>>, field |-> <<>>],
                        <<>>, 0, 0, FALSE)
  /\ pc = "executor"
  /\ err = ""
  /\ files = Disk(<<>>)
  /\ commonModels = CommonModels
  /\ nextID = 1
  /\ calls = [readModel |-> 0, chat |-> 0, upload |-> 0, createBatch |-> 0,
              readBatch |-> 0, readResponses |-> 0]
  /\ \E K \in 0..MaxParallelRows : chats = ExecutorChats(K)
  /\ answers = EmptyTable
  /\ par = ParInit
  /\ workers = <<>>
  /\ sent = EmptyMap
  /\ now = 0
  /\ provider = NoBatch
  /\ bat = BatInit
  /\ call = [fn |-> "CompleteChatBatch"]
  /\ result = NoResult

\* CompleteChatBatch makes the channel, adds len(chats) to the wait group and
\* starts one goroutine per chat.
CallCompleteChatBatch ==
  /\ pc = "executor"
  /\ workers' = Spawn(chats)
  /\ par' = [par EXCEPT !.channel = <<>>, !.invoked = @ + 1]
  /\ pc' = "wait"
  /\ UNCHANGED <<inv, err, files, commonModels, nextID, calls, chats, answers,
                 sent, now, provider, bat, call, result>>

\* A step of one of the goroutines of the running call.
WorkerStep ==
  \E i \in 1..Len(workers) : WorkerCall(i) \/ WorkerReturn(i) \/ WorkerSend(i)

ExecutorNext == CallCompleteChatBatch \/ WorkerStep \/ CollectBatch

SpecExecutor == InitExecutor /\ [][ExecutorNext]_vars

\* Every remote call returns, the scheduler runs every goroutine that can
\* run, and the caller goes on when its wait ends.
FairSpecExecutor ==
  SpecExecutor /\ WF_vars(CallCompleteChatBatch) /\ WF_vars(WorkerStep)
    /\ WF_vars(CollectBatch)


(***************************************************************************)
(* Specifications                                                          *)
(***************************************************************************)

SpecParallel == InitParallel /\ [][ParallelNext]_vars

SpecBatch == InitBatch /\ [][BatchNext]_vars

\* The command's own steps of polling and reconciliation keep running.
FairSpecBatch ==
  SpecBatch /\ WF_vars(ReadBatch) /\ WF_vars(Sleep) /\ WF_vars(Reconcile)

SpecRandom == InitRandom /\ [][RandomNext]_vars

\* The batch command followed by a later results command.
ResultsNext == BatchNext \/ BatchResults \/ BatchResultsAgain

SpecResults == InitBatch /\ [][ResultsNext]_vars

\* The prompt command.
SpecPrompt == InitPrompt /\ [][PromptNext]_vars

\* The library functions called on their own.
SpecLibrary == InitLibrary /\ [][LibraryNext]_vars

\* Every command of the tool and every library call.
Next ==
  ParallelNext \/ BatchNext \/ RandomComplete \/ BatchResults \/ Prompt
    \/ BatchResultsAgain \/ LibraryNext \/ CallCompleteChatBatch

Spec ==
  (InitParallel \/ InitBatch \/ InitRandom \/ InitPrompt \/ InitLibrary
     \/ InitExecutor \/ InitMarkers)
    /\ [][Next]_vars

(***************************************************************************)
(* The retry pass of the parallel command                                  *)
(***************************************************************************)

\* The ids of the chats the workers of the running call hold.
WorkerIDs == { workers[i].chat.ID : i \in 1..Len(workers) }

\* The ids of the chats queued for the retry pass.
RetryIDs == { par.retries[i].ID : i \in 1..Len(par.retries) }

\* The ids whose recorded result carries an error.
FailedIDs == { id \in DOMAIN par.results : par.results[id].ErrMsg # <<>> }

\* C1: in the parallel command a call of CompleteChatBatch sends each of its
\* chats once; at most one call follows the sub-batches, after all of them,
\* over exactly the chats whose first result carried an error; so a chat is
\* sent at most twice, and twice only if its first attempt failed.
C1_SingleBulkRetry ==
  /\ \A id \in DOMAIN sent :
       /\ sent[id] <= 2
       /\ sent[id] = 2 =>
            \E i \in 1..Len(par.retries) :
              par.retries[i].ID = id /\ par.retries[i].ErrMsg # <<>>
       /\ par.pass = "first" => sent[id] = 1
  /\ par.invoked <= Len(par.batches) + 1
  /\ \A i, j \in 1..Len(workers) :
       workers[i].chat.ID = workers[j].chat.ID => i = j
  /\ par.pass = "retry" =>
       /\ par.bi = Len(par.batches) + 1
       /\ par.invoked = Len(par.batches) + 1
       /\ WorkerIDs = RetryIDs
       /\ pc = "wait" => WorkerIDs = FailedIDs
       /\ \A id \in WorkerIDs : Count(sent, id) <= 2

\* A finished run with two sub-batches in which one chat was sent twice and
\* failed again, and the other was sent once.
C1_Witness ==
  /\ pc = "done"
  /\ Len(par.batches) = 2
  /\ par.invoked = 3
  /\ \E id \in DOMAIN sent : sent[id] = 2 /\ par.results[id].ErrMsg # <<>>
  /\ \E id \in DOMAIN sent : sent[id] = 1

\* The row of the answers table that carries a chat id.
RowOf(id) ==
  answers.Records[CHOOSE k \in 1..Len(answers.Records) :
                    Get(answers.Records[k], S_chatID) = id]

\* The cell of a row in the written output file, by column name.
OutputCell(id, name) ==
  LET f == files[inv.outputPath].csv
      col == CHOOSE i \in 1..Len(f[1]) : f[1][i] = name
      chatCol == CHOOSE i \in 1..Len(f[1]) : f[1][i] = S_chatID
      line == CHOOSE k \in 2..Len(f) : f[k][chatCol] = id
  IN  f[line][col]

\* The ids that failed on the first pass and succeeded on the retry pass:
\* those the retry call of CompleteChatBatch returned without an error.
RetrySucceeded ==
  { id \in DOMAIN par.ret :
      par.pass = "retry" /\ Count(sent, id) = 2 /\ par.ret[id].ErrMsg = <<>> }

\* The first message text of a response, empty when it has none.
ResponseText(resp) ==
  IF Len(resp.Choices) = 0 THEN <<>> ELSE resp.Choices[1]

\* The scores of a text under the run's selection are the row's score cells.
RowHoldsScores(row, text) ==
  LET scores == SelectScores(text, P.ScoreSelect)
  IN  /\ \A i \in 1..Len(scores) :
           \/ Get(row, P.ScoreField) = FormatF(scores[i])
           \/ Get(row, P.ScoreField \o Itoa(i)) = FormatF(scores[i])
      /\ \A name \in DOMAIN row :
           name \notin {S_q, S_a, S_chatID, S_completion} =>
             \E i \in 1..Len(scores) : row[name] = FormatF(scores[i])

\* The failure texts of a remote call appear in no cell of the row.
NoFailureText(row) ==
  \A name \in DOMAIN row : row[name] \notin {S_errSend, S_errJSON, S_errMarshal}

\* C2 as stated: the row of a chat that failed first and succeeded on the
\* retry holds the retry's response text as its completion, the scores of
\* that text, an empty error, and no trace of the first failure.
C2_RowHoldsResponseText ==
  (pc = "done" /\ err = "") =>
    \A id \in RetrySucceeded :
      /\ Get(RowOf(id), S_completion) = ResponseText(par.ret[id].Response)
      /\ files[inv.outputPath].fault = "none" =>
           OutputCell(id, S_completion) = ResponseText(par.ret[id].Response)
      /\ RowHoldsScores(RowOf(id), ResponseText(par.ret[id].Response))
      /\ par.results[id].ErrMsg = <<>>
      /\ NoFailureText(RowOf(id))

\* C2, amended: the row of such a chat holds the retry outcome: the first
\* message text of the retry's response and its scores when the response has
\* a non-empty first message, else the text "chat: no choices found" or
\* "chat: no content found" and no scores; the recorded error is empty and the
\* first failure's text is in no cell of the row.  The output file holds the
\* same completion, unless the disk took none of what WriteCSV wrote.
C2_RowHoldsRetryOutcome ==
  (pc = "done" /\ err = "") =>
    \A id \in RetrySucceeded :
      LET resp == par.ret[id].Response
          text == ResponseText(resp)
          shown == IF Len(resp.Choices) = 0 THEN S_noChoices
                   ELSE IF text = <<>> THEN S_noContent ELSE text
      IN  /\ Get(RowOf(id), S_completion) = shown
          /\ files[inv.outputPath].fault = "none" =>
               OutputCell(id, S_completion) = shown
          /\ RowHoldsScores(RowOf(id), text)
          /\ par.results[id].ErrMsg = <<>>
          /\ NoFailureText(RowOf(id))

\* A finished run in which a chat failed first and its retry returned a text
\* with a score.
C2_Witness ==
  /\ pc = "done"
  /\ \E id \in RetrySucceeded :
       /\ Len(par.ret[id].Scores) > 0
       /\ Get(RowOf(id), S_completion) = par.ret[id].Response.Choices[1]

(***************************************************************************)
(* Recorded results                                                        *)
(***************************************************************************)

\* The output file holds completions.
HasCompletions(f) ==
  f.exists /\ f.csv # <<>> /\ \E i \in 1..Len(f.csv[1]) : f.csv[1][i] = S_completion

\* C3 as stated: a result recorded for a chat id is never changed again.
C3_RecordedNeverChanges ==
  [][\A id \in DOMAIN par.results :
       id \in DOMAIN par.results' /\ par.results'[id] = par.results[id]]_vars

\* C3, amended: a result recorded without an error is never changed; in the
\* parallel command a result recorded with an error is replaced only when the
\* results of the retry pass are gathered, by the chat the retry call
\* returned for that id, after which no result changes; and the output file,
\* once it holds completions (written by the merge of the parallel command or
\* by batch reconciliation), is not changed again in the run (a results command
\* given a job that was reconciled before is another run).
C3_ReplacedOnlyByRetry ==
  [][/\ \A id \in DOMAIN par.results :
          /\ id \in DOMAIN par.results'
          /\ par.results[id].ErrMsg = <<>> => par.results'[id] = par.results[id]
          /\ par.results'[id] # par.results[id] =>
               /\ pc = "gather" /\ par.pass = "retry" /\ pc' = "merge"
               /\ Count(sent, id) =
                    IF CanMarshal(par.results[id].Request) THEN 2 ELSE 0
               /\ par.results'[id] = par.ret[id]
     /\ pc \in {"merge", "done"} => par.results' = par.results
     /\ (HasCompletions(files[inv.outputPath]) /\ bat'.reconciled <= 1) =>
          files'[inv.outputPath] = files[inv.outputPath]]_vars

\* The retry results have been gathered: the result recorded for a chat that
\* failed on the first pass is now the retry's result, without an error.
C3_Witness ==
  /\ pc = "merge"
  /\ par.pass = "retry"
  /\ \E i \in 1..Len(par.retries) :
       /\ par.retries[i].ErrMsg # <<>>
       /\ par.results[par.retries[i].ID] = par.ret[par.retries[i].ID]
       /\ par.results[par.retries[i].ID].ErrMsg = <<>>

(***************************************************************************)
(* The states of a unit                                                    *)
(***************************************************************************)

\* Every chat the run holds: those generated, those of the workers, those on
\* the channel, those CompleteChatBatch returned and those recorded.
AllUnits ==
  { chats[i] : i \in 1..Len(chats) }
  \cup { workers[i].chat : i \in 1..Len(workers) }
  \cup { par.channel[i] : i \in 1..Len(par.channel) }
  \cup { par.ret[id] : id \in DOMAIN par.ret }
  \cup { par.results[id] : id \in DOMAIN par.results }

\* C4 as stated: a unit is pending (no response, no error), succeeded
\* (response, no error) or failed (error, no response); none has both a
\* response and an error message.
C4_ResponseXorError ==
  \A chat \in AllUnits : ~(chat.Response # ZeroResponse /\ chat.ErrMsg # <<>>)

(***************************************************************************)
(* The map CompleteChatBatch returns                                       *)
(***************************************************************************)

\* C5 as stated: when CompleteChatBatch has returned, its map has one entry
\* per chat of the call, keyed by the chat's id, each the completed chat of
\* that id with a response or an error message and an elapsed time that is
\* not negative.
C5_BatchMapComplete ==
  pc = "gather" =>
    /\ DOMAIN par.ret = WorkerIDs
    /\ Cardinality(DOMAIN par.ret) = Len(workers)
    /\ \A i \in 1..Len(workers) :
         LET chat == par.ret[workers[i].chat.ID]
         IN  /\ chat.ID = workers[i].chat.ID
             /\ chat.Request = workers[i].chat.Request
             /\ chat.Request.User = chat.ID
             /\ chat.Response # ZeroResponse \/ chat.ErrMsg # <<>>
             /\ chat.Millis >= 0

(***************************************************************************)
(* Request building                                                        *)
(***************************************************************************)

\* The answer of a row of the answer file is white space only.
BlankRow(row) == \A i \in 1..Len(row[2]) : row[2][i] \in WhiteSpace

\* The number of rows up to the k-th whose answer is not blank.
NonBlankUpTo(rows, k) == Cardinality({ j \in 1..k : ~BlankRow(rows[j]) })

\* generateChatRequests returned without an error: only then does the table
\* have the chatID column.
Generated == HasField(answers, S_chatID)

\* C6: generateChatRequests over all rows returns one chat per row with a
\* non-blank answer, in row order; the row's chatID is the chat's id and its
\* request's user tag, the ids are distinct, a blank row's chatID is empty,
\* and all rows stay in the table in their order.
C6_OneUnitPerNonBlankRow ==
  Generated =>
    LET rows == inv.rows
        N == Len(rows)
    IN  /\ Len(chats) = NonBlankUpTo(rows, N)
        /\ Len(answers.Records) = N
        /\ \A k \in 1..N :
             /\ Get(answers.Records[k], S_q) = rows[k][1]
             /\ Get(answers.Records[k], S_a) = rows[k][2]
             /\ IF BlankRow(rows[k])
                THEN Get(answers.Records[k], S_chatID) = <<>>
                ELSE LET chat == chats[NonBlankUpTo(rows, k)]
                     IN  /\ Get(answers.Records[k], S_chatID) = chat.ID
                         /\ chat.Request.User = chat.ID
                         /\ chat.ID # <<>>
        /\ \A i, j \in 1..Len(chats) : chats[i].ID = chats[j].ID => i = j

\* Three rows, the middle one blank: two chats, for the first and third row.
C6_Witness ==
  /\ Generated
  /\ Len(inv.rows) = 3
  /\ ~BlankRow(inv.rows[1]) /\ BlankRow(inv.rows[2]) /\ ~BlankRow(inv.rows[3])
  /\ Len(chats) = 2
  /\ Get(answers.Records[3], S_chatID) = chats[2].ID

\* The invocation looks questions up by the rows' key column q, and some row
\* has a key the questions file lacks.
UnknownKeyInvocation ==
  /\ inv.questionPath # <<>>
  /\ inv.c.questionID = S_q
  /\ \E k \in 1..Len(inv.rows) : inv.rows[k][1] # <<"1">>

\* C7: with row-keyed lookup and a row whose key the questions map lacks,
\* generateChatRequests returns an error and no chat, the table gets no
\* chatID column or value, and no chat completion, upload or batch creation
\* is requested.
C7_UnknownKeyAborts ==
  (pc # "start" /\ UnknownKeyInvocation) =>
    /\ err # ""
    /\ (inv.c.model \in RemoteModels /\ IsValid(ToLower(inv.c.scoreSelect))
        /\ inv.c.answerField = S_a) => err = "unknown question ids"
    /\ pc = "done"
    /\ chats = <<>>
    /\ ~HasField(answers, S_chatID)
    /\ \A k \in 1..Len(answers.Records) :
         S_chatID \notin DOMAIN answers.Records[k]
    /\ calls.chat = 0 /\ calls.upload = 0 /\ calls.createBatch = 0
    /\ sent = EmptyMap
    /\ ~provider.exists

\* The command stopped on the unknown key of a row with a blank answer, the
\* other rows' keys being known.
C7_Witness ==
  /\ pc = "done"
  /\ err = "unknown question ids"
  /\ UnknownKeyInvocation
  /\ Len(inv.rows) = 3
  /\ inv.rows[2][1] # <<"1">> /\ BlankRow(inv.rows[2])
  /\ inv.rows[1][1] = <<"1">> /\ inv.rows[3][1] = <<"1">>

\* The errors of request building that are validation failures.
ValidationErrors ==
  {"score selection", "answer field", "question id field",
   "unknown question ids", "answer id"}

\* C8 as stated: when request building stops on a validation failure, no
\* request has been made to the gateway, the model lookup included, and the
\* disk and the provider are as they were.
C8_ValidationBeforeAnyCall ==
  err \in ValidationErrors =>
    /\ calls.readModel = 0
    /\ calls.chat = 0 /\ calls.upload = 0 /\ calls.createBatch = 0
    /\ calls.readBatch = 0 /\ calls.readResponses = 0
    /\ files = DiskOf(inv)
    /\ ~provider.exists

(***************************************************************************)
(* The batch command                                                       *)
(***************************************************************************)

\* C9 as stated: the table with the chat ids is written to the output path
\* before the upload and before the batch job is created, so the output file
\* exists whenever the provider holds the job.
C9_OutputSavedBeforeSubmission ==
  /\ calls.upload > 0 => files[inv.outputPath].exists
  /\ provider.exists =>
       /\ files[inv.outputPath].exists
       /\ files[inv.outputPath] = WriteCSV(files[inv.outputPath], answers).file
          \/ HasCompletions(files[inv.outputPath])

\* The statuses of a job that has ended.
TerminalStatuses == {"completed", "failed", "expired", "cancelled"}

\* With a positive wait, reconciliation runs at most once, only when the last
\* status read was a terminal one, and the command ends with it; a command
\* that ended without an error has reconciled and has read the status.
PollingSafety ==
  inv.wait > 0 =>
    /\ bat.reconciled <= 1
    /\ pc = "process" => (bat.Status \in TerminalStatuses /\ calls.readBatch >= 1)
    /\ bat.reconciled = 1 =>
         (bat.Status \in TerminalStatuses /\ pc = "done" /\ calls.readBatch >= 1
          /\ calls.readResponses = 1)
    /\ (pc = "done" /\ err = "") => bat.reconciled = 1
    /\ pc = "sleep" => bat.Status \notin TerminalStatuses

\* Without a wait the command neither reads the status nor reconciles.
NoWaitSafety ==
  inv.wait = 0 =>
    (calls.readBatch = 0 /\ calls.readResponses = 0 /\ bat.reconciled = 0
     /\ pc \notin {"poll", "sleep", "process"})

\* Once reconciliation has run, the status is not read again.
NoReadAfterReconcile ==
  bat.reconciled >= 1 =>
    (calls' = calls /\ bat' = bat /\ pc' = "done")

\* The command is polling a job that has ended.
PollingEndedJob ==
  /\ inv.wait > 0
  /\ pc \in {"poll", "sleep"}
  /\ provider.exists
  /\ provider.Status \in TerminalStatuses

\* C10 as stated: with a positive wait batchCreate reads the status until a
\* read returns a terminal one, then runs processBatchResults once and reads
\* no more; if the job ends and no read fails, reconciliation is reached;
\* with wait = 0 it returns after submission without reading or reconciling.
C10_PollThenReconcileOnce ==
  /\ [](PollingSafety /\ NoWaitSafety)
  /\ [][NoReadAfterReconcile]_vars
  /\ (PollingEndedJob ~> (bat.reconciled = 1 \/ err = "read batch"))

\* The command polls: a positive wait, and no --input-only, which returns
\* before the wait is looked at.
Polls == inv.wait > 0 /\ ~inv.inputOnly

\* PollingSafety of the commands that poll.
SubmittedPollingSafety == Polls => PollingSafety

\* A command that does not poll neither reads the status nor reconciles; with
\* --input-only it submits nothing either.
NoPollSafety ==
  /\ ~Polls =>
       (calls.readBatch = 0 /\ calls.readResponses = 0 /\ bat.reconciled = 0
        /\ pc \notin {"poll", "sleep", "process"})
  /\ inv.inputOnly =>
       (calls.upload = 0 /\ calls.createBatch = 0 /\ ~provider.exists)

\* C10: with a positive wait and without --input-only batchCreate reads the
\* status until a read returns a terminal one, then runs processBatchResults
\* once and reads no more; if the job ends and no read fails, reconciliation
\* is reached; with wait = 0 or with --input-only it returns without reading
\* the status and without reconciling, and with --input-only without
\* submitting a job.
C10_PollUnlessInputOnly ==
  /\ [](SubmittedPollingSafety /\ NoPollSafety)
  /\ [][NoReadAfterReconcile]_vars
  /\ (PollingEndedJob ~> (bat.reconciled = 1 \/ err = "read batch"))

\* The command read the status more than once, reconciled a completed job and
\* wrote its completions.
C10_Witness ==
  /\ Polls
  /\ pc = "done" /\ err = ""
  /\ bat.reconciled = 1
  /\ calls.readBatch >= 2
  /\ bat.Status = "completed"
  /\ HasCompletions(files[inv.outputPath])

(***************************************************************************)
(* Score columns of the written table                                      *)
(***************************************************************************)

\* The cell of a line of a CSV file under a column name; Absent when the file
\* has no such column.
Absent == <<"<", "a", "b", "s", "e", "n", "t", ">">>

FileCell(f, line, name) ==
  IF \E i \in 1..Len(f.csv[1]) : f.csv[1][i] = name
  THEN f.csv[line][CHOOSE i \in 1..Len(f.csv[1]) : f.csv[1][i] = name]
  ELSE Absent

\* The results the merge of the running command looked rows up in.
MergedResults == IF inv.cmd = "parallel" THEN par.results ELSE provider.items

\* The scores extracted for a chat id: the chat's scores in the parallel
\* command, the selected scores of the item's completion in reconciliation.
ExtractedScores(id) ==
  IF inv.cmd = "parallel" THEN par.results[id].Scores
  ELSE IF BatchHasError(provider.items[id].Error) THEN <<>>
  ELSE SelectScores(BatchCompletion(provider.items[id]), P.ScoreSelect)

\* The lines of the written output file whose chat id has a result.
MergedLines ==
  LET f == files[inv.outputPath]
  IN  { k \in 2..Len(f.csv) : FileCell(f, k, S_chatID) \in DOMAIN MergedResults }

\* The output file of a finished merge.
MergeWritten ==
  /\ inv.cmd \in {"parallel", "batch"}
  /\ pc = "done" /\ err = ""
  /\ HasCompletions(files[inv.outputPath])

\* The largest number of scores extracted for a merged row.
LargestScoreCount ==
  LET f == files[inv.outputPath]
      counts == { Len(ExtractedScores(FileCell(f, k, S_chatID))) : k \in MergedLines }
  IN  IF counts = {} THEN 0 ELSE CHOOSE n \in counts : \A m \in counts : m <= n

\* C11: in the written table of a merge with largest score count N, every
\* merged row holds its i-th score under <scoreField>i when N > 1 (the
\* columns past its own scores empty) and its score under <scoreField>
\* when N = 1.
C11_ScoresUnderWrittenColumns ==
  MergeWritten =>
    LET f == files[inv.outputPath]
        N == LargestScoreCount
    IN  \A k \in MergedLines :
          LET scores == ExtractedScores(FileCell(f, k, S_chatID))
          IN  /\ N > 1 =>
                   \A i \in 1..N :
                     FileCell(f, k, P.ScoreField \o Itoa(i)) =
                       IF i <= Len(scores) THEN FormatF(scores[i]) ELSE <<>>
              /\ N = 1 =>
                   (Len(scores) = 1 =>
                      FileCell(f, k, P.ScoreField) = FormatF(scores[1]))

(***************************************************************************)
(* Error items in reconciliation                                           *)
(***************************************************************************)

\* The names of the score columns of a CSV file: the score field and the
\* score field followed by a number.
ScoreColumns(f) ==
  { i \in 1..Len(f.csv[1]) :
      \/ f.csv[1][i] = P.ScoreField
      \/ \E n \in 1..MaxRows : f.csv[1][i] = P.ScoreField \o Itoa(n) }

\* The output file of a finished reconciliation.
Reconciled ==
  inv.cmd = "batch" /\ MergeWritten /\ bat.reconciled = 1

\* C12: after reconciliation a row whose item carries an error holds the
\* error text as its completion and nothing in any score column, and the
\* rows of the other items hold their completions.
C12_ErrorRowHasTextAndNoScores ==
  Reconciled =>
    LET f == files[inv.outputPath]
    IN  \A k \in MergedLines :
          LET item == provider.items[FileCell(f, k, S_chatID)]
          IN  IF BatchHasError(item.Error)
              THEN /\ FileCell(f, k, S_completion) = BatchErrorText(item.Error)
                   /\ \A i \in ScoreColumns(f) : f.csv[k][i] = <<>>
              ELSE FileCell(f, k, S_completion) = BatchCompletion(item)

(***************************************************************************)
(* Run parameters recovered from the job's metadata                        *)
(***************************************************************************)

\* processBatchResults has run, inline or in a later results command, and
\* got as far as merging.
ReconciledFromMetadata ==
  inv.cmd = "batch" /\ bat.reconciled = 1 /\ err = ""

\* C13 as stated: the output path, score field and score selection that
\* reconciliation works with are exactly those given to the batch command
\* that submitted the job (the selection as the policy the flag names).
C13_UsesSuppliedParameters ==
  ReconciledFromMetadata =>
    /\ bat.outputPath = inv.outputPath
    /\ bat.scoreField = inv.c.scoreField
    /\ bat.scoreSelect = ToLower(inv.c.scoreSelect)

\* C13: reconciliation works with the output path and the score selection
\* given to the batch command that submitted the job, and with its score
\* field when one was given; for the empty score field it works with "score".
C13_UsesSuppliedOrDefaultField ==
  ReconciledFromMetadata =>
    /\ bat.outputPath = inv.outputPath
    /\ bat.scoreField = (IF inv.c.scoreField = <<>> THEN S_score
                         ELSE inv.c.scoreField)
    /\ bat.scoreSelect = ToLower(inv.c.scoreSelect)

\* A later results command reconciled a job submitted without waiting, with a
\* score field and a selection of the user's, and wrote a score under the field.
C13_Witness ==
  /\ ReconciledFromMetadata
  /\ inv.wait = 0
  /\ inv.c.scoreField = S_z /\ inv.c.scoreSelect = S_ALL
  /\ bat.scoreField = S_z /\ bat.scoreSelect = All
  /\ \E k \in 2..Len(files[inv.outputPath].csv) :
       FileCell(files[inv.outputPath], k, S_z) = FormatF(F32(0, 129, 6291456))

(***************************************************************************)
(* Library functions                                                       *)
(***************************************************************************)

\* C14: Batch.IsDone is true exactly for the statuses completed, failed,
\* expired and cancelled, and false for every other string.
C14_IsDoneExactlyTerminal ==
  (call.fn = "IsDone" /\ result.done) =>
    (result.value <=>
       call.status \in {"completed", "failed", "expired", "cancelled"})

\* IsDone was called on a status that is no final one and returned false.
C14_Witness ==
  /\ call.fn = "IsDone" /\ result.done
  /\ call.status = "cancelling"
  /\ result.value = FALSE

\* A table read without error by a program of library calls.
TableLoaded ==
  inv.cmd = "none" /\ err = "" /\ pc \in {"loaded", "written", "done"}
  /\ call.fn \in {"ReadCSVTable", "AddField", "set", "Record", "WriteCSV"}

\* C15: the column names of a table read by ReadCSVTable and changed by any
\* AddField calls are pairwise distinct.
C15_ColumnNamesDistinct ==
  TableLoaded =>
    \A i, j \in 1..Len(answers.FieldNames) :
      i # j => answers.FieldNames[i] # answers.FieldNames[j]

\* A header with a blank cell was read, its column named column2, and
\* AddField was then called with that name.
C15_Witness ==
  /\ TableLoaded
  /\ files[F_out].csv[1] = <<S_a, <<>>>>
  /\ call.fn = "AddField" /\ call.name = S_column2
  /\ answers.FieldNames = <<S_a, S_column2>>

\* C16 as stated: AddField with the empty name leaves the column list as it was.
C16_AddEmptyNameNoOp ==
  (call.fn = "AddField" /\ call.name = <<>>) =>
    answers.FieldNames = call.table.FieldNames

\* C17 as stated: Table.Record returns the first row whose value in the column
\* equals the value, and nil when there is none or the name is not a column.
C17_RecordFirstMatchOrNil ==
  (call.fn = "Record" /\ result.done) =>
    LET t == call.table
        matches == { k \in 1..Len(t.Records) :
                       /\ \E i \in 1..Len(t.FieldNames) : t.FieldNames[i] = call.name
                       /\ Get(t.Records[k], call.name) = call.value }
    IN  IF matches = {} THEN result.value = 0
        ELSE /\ result.value \in matches
             /\ \A k \in matches : result.value <= k

\* C18 as stated: a table written by WriteCSV and read back by ReadCSVTable
\* has the same column names in the same order and the same rows in the same
\* order with the same value in every column.
C18_WriteReadRoundTrip ==
  (inv.cmd = "none" /\ pc = "done" /\ call.fn = "ReadCSVTable" /\ result.done) =>
    /\ ~result.value.err
    /\ result.value.table.FieldNames = answers.FieldNames
    /\ Len(result.value.table.Records) = Len(answers.Records)
    /\ \A k \in 1..Len(answers.Records) :
         \A i \in 1..Len(answers.FieldNames) :
           Get(result.value.table.Records[k], answers.FieldNames[i])
             = Get(answers.Records[k], answers.FieldNames[i])

\* The scores of the words of a text that parse as numbers, left to right.
NumericTokens(text) ==
  LET parsed == [i \in 1..Len(Fields(text)) |-> ParseScore(Fields(text)[i])]
      numeric == SelectSeq(parsed, LAMBDA r : r.ok)
  IN  [i \in 1..Len(numeric) |-> numeric[i].score]

\* C19: SelectScores returns all numeric tokens in order for all, the first
\* of them for first, the last of them for last, and nothing for none, for
\* an invalid selection and for a text without numeric tokens.
C19_SelectScoresReference ==
  (call.fn = "SelectScores" /\ result.done) =>
    LET tokens == NumericTokens(call.text)
    IN  result.value =
          CASE call.sel = All -> tokens
            [] call.sel = First /\ tokens # <<>> -> <<tokens[1]>>
            [] call.sel = Last /\ tokens # <<>> -> <<tokens[Len(tokens)]>>
            [] OTHER -> <<>>

\* SelectScores took the last of two numbers that a word that is no number
\* follows.
C19_Witness ==
  /\ call.fn = "SelectScores" /\ result.done
  /\ call.sel = Last
  /\ call.text = <<"1", " ", "7", ".", " ", "x">>
  /\ result.value = <<F32(0, 129, 6291456)>>

(***************************************************************************)
(* The request of the prompt command                                       *)
(***************************************************************************)

\* The messages of a request that carries the prompt as its user-role
\* message, after the system text as a system-role message when there is one.
ExpectedMessages(system, prompt) ==
  (IF Len(system) > 0 THEN <<[Role |-> "system", Content |-> system]>> ELSE <<>>)
    \o <<[Role |-> "user", Content |-> prompt]>>

\* The prompt command has sent its chat-completion request.
PromptSent == inv.cmd = "prompt" /\ calls.chat > 0

\* C20: the request the prompt command sends has the text of the prompt file
\* as the content of its user-role message, preceded by the text of the
\* system file as a system-role message exactly when a non-empty system file
\* is given; and in every request built the user-role message is last and
\* the request's user field equals the id of the chat.
C20_PromptFileIsUserMessage ==
  /\ PromptSent =>
       chats[1].Request.Messages =
         ExpectedMessages(ReadTextFile(files, inv.systemPath).text,
                          ReadTextFile(files, inv.promptPath).text)
  /\ \A i \in 1..Len(chats) :
       /\ chats[i].Request.Messages # <<>>
       /\ chats[i].Request.Messages[Len(chats[i].Request.Messages)].Role = "user"
       /\ chats[i].Request.User = chats[i].ID

(***************************************************************************)
(* Sub-batches of the parallel command                                     *)
(***************************************************************************)

\* The ids of the chats of sub-batch k.
BatchIDs(k) == { par.batches[k][i].ID : i \in 1..Len(par.batches[k]) }

\* A chat-completion request has been sent for the chat.
Dispatched(id) == Count(sent, id) > 0

\* Every goroutine of the running CompleteChatBatch call has returned.
AllWorkersDone == \A i \in 1..Len(workers) : workers[i].pc = "done"

\* A request of a sub-batch is sent only when every chat of the sub-batches
\* before it has its result recorded, and on the first pass the goroutines
\* hold chats of the current sub-batch only.
SubBatchesInTurn ==
  /\ \A k \in 1..Len(par.batches) :
       \A id \in BatchIDs(k) :
         Dispatched(id) =>
           \A j \in 1..(k - 1) : BatchIDs(j) \subseteq DOMAIN par.results
  /\ (par.pass = "first" /\ pc = "wait") => WorkerIDs = BatchIDs(par.bi)

\* The map a call returned and the results the caller recorded change only
\* when every goroutine of the call has returned.
ResultsAfterBarrier ==
  (par.ret' # par.ret \/ par.results' # par.results) => AllWorkersDone

\* C21: the sub-batches of the parallel command run strictly one after
\* another (no request of sub-batch i+1 is sent until every request of
\* sub-batch i has finished and its result is recorded by the caller), and a
\* CompleteChatBatch call shows its caller no result before all of its
\* goroutines have finished.
C21_SubBatchBarrier == []SubBatchesInTurn /\ [][ResultsAfterBarrier]_vars

\* A request of the second sub-batch is in flight; the results of the first
\* sub-batch are recorded.
C21_Witness ==
  /\ pc = "wait"
  /\ par.pass = "first"
  /\ par.bi = 2
  /\ \E i \in 1..Len(workers) : workers[i].pc = "inflight"
  /\ BatchIDs(1) # {}
  /\ BatchIDs(1) \subseteq DOMAIN par.results

(***************************************************************************)
(* Accesses of the goroutines and of the caller                            *)
(***************************************************************************)

\* The goroutines whose chat a step changes.
UnitWriters == { i \in 1..Len(workers) : workers'[i].chat # workers[i].chat }

\* The goroutines a step moves.
Movers == { i \in 1..Len(workers) : workers'[i] # workers[i] }

\* A step of the concurrent phase: one goroutine moves; it writes no chat but
\* its own copy, which it does when its remote call returns; the table, the
\* generated chats and the results and retries of the caller are not touched;
\* the channel changes only by the send of the moving goroutine's own chat.
WorkerStepIsPrivate ==
  (pc = "wait" /\ pc' = "wait") =>
    /\ Len(workers') = Len(workers)
    /\ Cardinality(Movers) <= 1
    /\ \A i \in UnitWriters :
         workers[i].pc = "inflight" /\ workers'[i].pc = "send"
    /\ answers' = answers
    /\ files' = files
    /\ chats' = chats
    /\ par.results' = par.results
    /\ par.retries' = par.retries
    /\ par.ret' = par.ret
    /\ par.channel' # par.channel =>
         \E i \in Movers :
           /\ workers[i].pc = "send"
           /\ par.channel' = Append(par.channel, workers[i].chat)

\* The table rows of the parallel command are written by the caller alone:
\* when it builds the requests, before any goroutine exists, and in the merge,
\* when every goroutine has returned and the retry pass, if there are chats to
\* retry, is over.
RowsWrittenByCaller ==
  (inv.cmd = "parallel" /\ answers' # answers) =>
    \/ pc = "start" /\ workers = <<>>
    \/ /\ pc = "merge"
       /\ AllWorkersDone
       /\ par.retries # <<>> => par.pass = "retry"
       /\ RetryIDs \subseteq DOMAIN par.results

\* C22: during the concurrent phase no goroutine reads or writes a table row
\* or the chat of another goroutine: each writes only its own copy of its
\* chat and sends it on the results channel; the table rows are written only
\* by the calling goroutine, only after the results of the concurrent phase
\* (the retry pass included) are collected; so no two concurrent accesses, one
\* of them a write, touch the same row or chat.
C22_WorkersTouchOwnUnitOnly ==
  [][WorkerStepIsPrivate /\ RowsWrittenByCaller]_vars

\* Two goroutines run at once: one has filled in its chat and is about to
\* send it, the other's request is still in flight and its chat untouched.
C22_Witness ==
  /\ pc = "wait"
  /\ \E i, j \in 1..Len(workers) :
       /\ workers[i].pc = "send"
       /\ workers[i].chat.Response # ZeroResponse
       /\ workers[j].pc = "inflight"
       /\ workers[j].chat.Response = ZeroResponse

(***************************************************************************)
(* Requests in flight                                                      *)
(***************************************************************************)

\* C23: at no time during a run of the parallel command with batch size
\* B >= 1, the retry pass included, are more than B chat-completion requests
\* in flight.
C23_InFlightAtMostBatchSize ==
  (inv.cmd = "parallel" /\ inv.batchSize >= 1) => InFlight <= inv.batchSize

(***************************************************************************)
(* Termination of CompleteChatBatch                                        *)
(***************************************************************************)

\* A goroutine that is about to send finds room on the channel.
NoSendBlocks ==
  pc = "wait" =>
    \A i \in 1..Len(workers) :
      workers[i].pc = "send" => Len(par.channel) < Len(workers)

\* The channel is closed and the map returned only after every goroutine has
\* sent and returned; the map has one chat per goroutine, none for K = 0.
ClosedAfterEverySend ==
  pc = "gather" =>
    /\ AllWorkersDone
    /\ par.channel = <<>>
    /\ DOMAIN par.ret = WorkerIDs
    /\ Len(workers) = 0 => par.ret = EmptyMap

\* The wait of the caller ends as soon as every goroutine is done, the empty
\* call included.
WaitEndsWhenDone == (pc = "wait" /\ AllWorkersDone) => ENABLED CollectBatch

\* C24: provided each remote call returns, a call of CompleteChatBatch returns:
\* no goroutine blocks on sending its result, since the channel has room for
\* all K chats; the wait of the caller ends once all K goroutines are done;
\* the channel is closed only after every send; and for K = 0 the call
\* returns an empty map at once.
C24_CompleteChatBatchReturns ==
  /\ [](NoSendBlocks /\ ClosedAfterEverySend /\ WaitEndsWhenDone)
  /\ (pc = "executor") ~> (pc = "gather")
  /\ (pc = "wait") ~> (pc = "gather")

\* A call on the largest number of chats has returned a map with a chat for
\* each.
C24_Witness ==
  /\ call.fn = "CompleteChatBatch"
  /\ pc = "gather"
  /\ Len(workers) = MaxParallelRows
  /\ Cardinality(DOMAIN par.ret) = MaxParallelRows

\* A call on no chats has returned the empty map.
C24_WitnessEmpty ==
  /\ call.fn = "CompleteChatBatch"
  /\ pc = "gather"
  /\ chats = <<>>
  /\ par.ret = EmptyMap

(***************************************************************************)
(* Rows that reconciliation passes over                                    *)
(***************************************************************************)

\* The file persisted at submission: the table with the chat ids.
Persisted == WriteCSV(NoFile, answers).file

\* The lines of the reconciled output file that have no chat id or whose chat
\* id has no downloaded item.
PassedOverLines ==
  LET f == files[inv.outputPath]
  IN  { k \in 2..Len(f.csv) :
          \/ FileCell(f, k, S_chatID) = <<>>
          \/ FileCell(f, k, S_chatID) \notin DOMAIN provider.items }

\* C25: reconciliation leaves every column value of a row unchanged when the
\* row's chat id is empty or no downloaded item has that chat id: the row is in
\* the rewritten output file at the same place, with the value it had in the
\* file persisted at submission under each column of that file and nothing
\* under a column reconciliation added.
C25_PassedOverRowsUnchanged ==
  Reconciled =>
    LET f == files[inv.outputPath]
    IN  /\ Len(f.csv) = Len(Persisted.csv)
        /\ \A i \in 1..Len(Persisted.csv[1]) : f.csv[1][i] = Persisted.csv[1][i]
        /\ \A k \in PassedOverLines :
             \A i \in 1..Len(f.csv[1]) :
               f.csv[k][i] = IF i <= Len(Persisted.csv[1]) THEN Persisted.csv[k][i]
                             ELSE <<>>

\* A job that expired was reconciled: one row has an item, one row with a
\* chat id has none, and both are in the output file.
C25_Witness ==
  /\ Reconciled
  /\ MergedLines # {}
  /\ \E k \in PassedOverLines : FileCell(files[inv.outputPath], k, S_chatID) # <<>>

\* A reconciled output file has a row without a chat id, next to a row with
\* an item.
C25_WitnessNoChatID ==
  /\ Reconciled
  /\ MergedLines # {}
  /\ \E k \in PassedOverLines : FileCell(files[inv.outputPath], k, S_chatID) = <<>>

(***************************************************************************)
(* Reconciliation run twice                                                *)
(***************************************************************************)

\* A step in which processBatchResults ran without an error on a job it had
\* reconciled before, from the output file the first run wrote.
SecondReconciliation ==
  /\ inv.cmd = "batch"
  /\ bat.reconciled = 1 /\ bat'.reconciled = 2
  /\ err = "" /\ err' = ""

\* C26: reconciliation is idempotent: a second run of processBatchResults for
\* the same job with the same downloaded items, from the output file the
\* first run wrote, leaves the file with the same columns in the same order
\* and the same row values.
C26_ReconciliationIdempotent ==
  [][SecondReconciliation =>
       files'[inv.outputPath] = files[inv.outputPath]]_vars

(***************************************************************************)
(* The same response recorded by the parallel command and by reconciliation *)
(***************************************************************************)

\* What batch reconciliation records for a response without an error that has
\* the choices: the completion text and the scores.
BatchRecord(choices, sel) ==
  LET completion == BatchCompletion([Error |-> NoBatchError, Choices |-> choices])
  IN  [text |-> completion, scores |-> SelectScores(completion, sel)]

\* What the parallel command records for a response without an error that has
\* the choices.
ParallelRecord(choices, sel) ==
  LET resp == [ID |-> "r", Choices |-> choices]
      fm == FirstMessageContent(resp)
  IN  [text |-> ParallelCompletion([Response |-> resp, ErrMsg |-> <<>>]).text,
       scores |-> IF fm.err = <<>> THEN SelectScores(fm.text, sel) ELSE <<>>]

\* C27: for the same model response to the same unit the parallel command and
\* batch reconciliation write the same completion text and the same scores
\* into the row; a response without an error that has no choices or an empty
\* first message is recorded by both in the same way.
C27_SameRecordInBothPaths ==
  MergeWritten =>
    LET f == files[inv.outputPath]
    IN  \A k \in MergedLines :
          LET id == FileCell(f, k, S_chatID)
          IN  IF inv.cmd = "parallel"
              THEN par.results[id].ErrMsg = <<>> =>
                     /\ FileCell(f, k, S_completion) =
                          BatchRecord(par.results[id].Response.Choices,
                                      P.ScoreSelect).text
                     /\ par.results[id].Scores =
                          BatchRecord(par.results[id].Response.Choices,
                                      P.ScoreSelect).scores
              ELSE ~BatchHasError(provider.items[id].Error) =>
                     /\ FileCell(f, k, S_completion) =
                          ParallelRecord(provider.items[id].Choices,
                                         bat.scoreSelect).text
                     /\ ExtractedScores(id) =
                          ParallelRecord(provider.items[id].Choices,
                                         bat.scoreSelect).scores

(***************************************************************************)
(* psy.Batch                                                               *)
(***************************************************************************)

RECURSIVE Flatten(_)
\* The groups joined in their order.
Flatten(groups) ==
  IF groups = <<>> THEN <<>> ELSE Head(groups) \o Flatten(Tail(groups))

\* C28: for every slice and every batch size B >= 1, Batch returns groups
\* that joined in their order give the slice in its order; every group is
\* non-empty, every group but the last has exactly B items and the last has at
\* most B; the empty slice gives no groups.
C28_BatchPartitionsInOrder ==
  (result.done /\ call.fn = "Batch" /\ call.batchSize >= 1) =>
    LET groups == result.value
    IN  /\ Flatten(groups) = call.items
        /\ \A i \in 1..Len(groups) :
             /\ Len(groups[i]) >= 1
             /\ Len(groups[i]) <= call.batchSize
             /\ i < Len(groups) => Len(groups[i]) = call.batchSize
        /\ call.items = <<>> => groups = <<>>

\* Batch has divided a slice into full groups and a shorter last one.
C28_Witness ==
  /\ result.done /\ call.fn = "Batch"
  /\ call.batchSize >= 2
  /\ Len(result.value) >= 2
  /\ Len(result.value[Len(result.value)]) < call.batchSize

(***************************************************************************)
(* psy.ParseScore                                                          *)
(***************************************************************************)

S_7_5kg == <<"7", ".", "5", "k", "g", ",">>

\* C29 as stated: the token "7.5kg," is stripped to "7" and yields the score
\* 7, not 7.5.
C29_UnitSuffixTruncates ==
  (result.done /\ call.fn = "ParseScore" /\ call.s = S_7_5kg) =>
    /\ StripNonDigits(call.s) = <<"7">>
    /\ result.value = [ok |-> TRUE, score |-> F32(0, 129, 6291456)]

\* The place of the last digit of a token, 0 when it has none.
LastDigit(s) ==
  IF \E i \in 1..Len(s) : IsDigit(s[i])
  THEN CHOOSE i \in 1..Len(s) : IsDigit(s[i]) /\ \A j \in (i + 1)..Len(s) : ~IsDigit(s[j])
  ELSE 0

\* C29, amended: ParseScore parses a token that starts with a sign or a digit
\* up to its last digit: the token "7.5kg," is stripped to "7.5" and yields
\* 7.5; the score is cut to the integer part only when no digit follows the
\* point, as in "7.kg," which is stripped to "7" and yields 7.
C29_StripsToLastDigit ==
  (result.done /\ call.fn = "ParseScore") =>
    /\ result.value =
         IF call.s = <<>> \/ (call.s[1] \notin {"+", "-"} /\ ~IsDigit(call.s[1]))
         THEN [ok |-> FALSE, score |-> F32(0, 0, 0)]
         ELSE ParseFloat(SubSeq(call.s, 1, LastDigit(call.s)))
    /\ call.s = S_7_5kg =>
         /\ StripNonDigits(call.s) = <<"7", ".", "5">>
         /\ result.value = [ok |-> TRUE, score |-> F32(0, 129, 7340032)]
    /\ call.s = <<"7", ".", "k", "g", ",">> =>
         /\ StripNonDigits(call.s) = <<"7">>
         /\ result.value = [ok |-> TRUE, score |-> F32(0, 129, 6291456)]

\* ParseScore has parsed the token "7.5kg,".
C29_Witness ==
  /\ result.done /\ call.fn = "ParseScore"
  /\ call.s = S_7_5kg
  /\ result.value.ok

(***************************************************************************)
(* Markers in inserted text                                                *)
(***************************************************************************)

RECURSIVE SinglePass(_, _, _, _)
\* The template from place i on with each marker replaced by its text in one
\* scan from left to right; inserted text is not scanned.
SinglePass(template, i, q, answer) ==
  IF i > Len(template) THEN <<>>
  ELSE IF HasPrefixAt(template, i, S_questionMarker)
  THEN q \o SinglePass(template, i + Len(S_questionMarker), q, answer)
  ELSE IF HasPrefixAt(template, i, S_answerMarker)
  THEN answer \o SinglePass(template, i + Len(S_answerMarker), q, answer)
  ELSE <<template[i]>> \o SinglePass(template, i + 1, q, answer)

\* The question text and the answer the request of the one-row command is
\* built from.
RowQuestion == CleanText(files[F_questions].csv[2][2])

RowAnswer == CleanText(files[F_answers].csv[2][2])

\* The prompt of the request the command built.
BuiltPrompt ==
  chats[1].Request.Messages[Len(chats[1].Request.Messages)].Content

\* C30: template substitution is single-pass with respect to inserted text:
\* the text inserted for the question marker or for the answer marker is not
\* scanned for markers, so a marker inside a question text or inside a row's
\* answer is in the resolved prompt as it was written.
C30_InsertedTextNotRescanned ==
  (inv \in MarkerInvocations /\ chats # <<>>) =>
    BuiltPrompt = SinglePass(files[F_prompt].text, 1, RowQuestion, RowAnswer)

====
